---- MODULE Spec2Model ----
(***************************************************************************)
(* Skill normalisation, aggregation, eligibility gate and ranking of the   *)
(* applicant-tracking engine (src/multistage).                             *)
(*                                                                         *)
(* Text is a sequence of one-character strings.  Dates are month indices.  *)
(* Fractions are fixed-point integers; each scale is named where used.     *)
(***************************************************************************)
EXTENDS Integers, Sequences, FiniteSets, TLC

\* ------------------------------------------------------------------------
\* Characters and generic text helpers (Python str methods and re module)
\* ------------------------------------------------------------------------

None == "None"

LowerLetters ==
    {"a","b","c","d","e","f","g","h","i","j","k","l","m",
     "n","o","p","q","r","s","t","u","v","w","x","y","z"}

Digits == {"0","1","2","3","4","5","6","7","8","9"}

UpperToLower ==
    ("A" :> "a") @@ ("B" :> "b") @@ ("C" :> "c") @@ ("D" :> "d") @@
    ("E" :> "e") @@ ("F" :> "f") @@ ("G" :> "g") @@ ("H" :> "h") @@
    ("I" :> "i") @@ ("J" :> "j") @@ ("K" :> "k") @@ ("L" :> "l") @@
    ("M" :> "m") @@ ("N" :> "n") @@ ("O" :> "o") @@ ("P" :> "p") @@
    ("Q" :> "q") @@ ("R" :> "r") @@ ("S" :> "s") @@ ("T" :> "t") @@
    ("U" :> "u") @@ ("V" :> "v") @@ ("W" :> "w") @@ ("X" :> "x") @@
    ("Y" :> "y") @@ ("Z" :> "z")

\* regex class \w
IsWordChar(c) == c \in LowerLetters \/ c \in DOMAIN UpperToLower \/ c \in Digits \/ c = "_"

\* regex class \s
IsSpace(c) == c = " "

\* str.lower()
LowerChar(c) == IF c \in DOMAIN UpperToLower THEN UpperToLower[c] ELSE c

Lower(s) == [i \in 1..Len(s) |-> LowerChar(s[i])]

RECURSIVE LStrip(_)
LStrip(s) == IF s # <<>> /\ IsSpace(Head(s)) THEN LStrip(Tail(s)) ELSE s

RECURSIVE RStrip(_)
RStrip(s) ==
    IF s # <<>> /\ IsSpace(s[Len(s)]) THEN RStrip(SubSeq(s, 1, Len(s) - 1)) ELSE s

\* str.strip()
Strip(s) == RStrip(LStrip(s))

\* s[i..] starts with p
StartsAt(s, i, p) ==
    /\ i + Len(p) - 1 <= Len(s)
    /\ \A k \in 1..Len(p) : s[i + k - 1] = p[k]

\* Python "p in s"
Contains(s, p) == \E i \in 1..(Len(s) + 1) : StartsAt(s, i, p)

\* str.replace(p, r): leftmost, non-overlapping
RECURSIVE ReplaceFrom(_, _, _, _)
ReplaceFrom(s, i, p, r) ==
    IF i > Len(s) THEN <<>>
    ELSE IF StartsAt(s, i, p) THEN r \o ReplaceFrom(s, i + Len(p), p, r)
    ELSE <<s[i]>> \o ReplaceFrom(s, i + 1, p, r)

Replace(s, p, r) == ReplaceFrom(s, 1, p, r)

\* re.sub(r"\s+", " ", s)
RECURSIVE CollapseFrom(_, _)
CollapseFrom(s, i) ==
    IF i > Len(s) THEN <<>>
    ELSE IF IsSpace(s[i])
         THEN IF i > 1 /\ IsSpace(s[i - 1]) THEN CollapseFrom(s, i + 1)
              ELSE <<" ">> \o CollapseFrom(s, i + 1)
         ELSE <<s[i]>> \o CollapseFrom(s, i + 1)

CollapseWhitespace(s) == CollapseFrom(s, 1)

\* regex \b at the gap before position i (1 <= i <= Len(s) + 1)
Boundary(s, i) ==
    LET before == i > 1 /\ IsWordChar(s[i - 1])
        after  == i <= Len(s) /\ IsWordChar(s[i])
    IN  before # after

\* re.sub(r"\bw\b", r, s) for a literal word w
RECURSIVE SubWordFrom(_, _, _, _)
SubWordFrom(s, i, w, r) ==
    IF i > Len(s) THEN <<>>
    ELSE IF StartsAt(s, i, w) /\ Boundary(s, i) /\ Boundary(s, i + Len(w))
         THEN r \o SubWordFrom(s, i + Len(w), w, r)
         ELSE <<s[i]>> \o SubWordFrom(s, i + 1, w, r)

SubWord(s, w, r) == SubWordFrom(s, 1, w, r)

\* index of the first non-space character at or after i
RECURSIVE SkipSpaces(_, _)
SkipSpaces(s, i) == IF i <= Len(s) /\ IsSpace(s[i]) THEN SkipSpaces(s, i + 1) ELSE i

\* re.sub(r"\bw\s*d\b", w, s): a word, optional spaces, a version digit
RECURSIVE SubVersionFrom(_, _, _, _)
SubVersionFrom(s, i, w, d) ==
    IF i > Len(s) THEN <<>>
    ELSE LET j == SkipSpaces(s, i + Len(w))
         IN  IF /\ StartsAt(s, i, w)
                /\ Boundary(s, i)
                /\ j <= Len(s)
                /\ s[j] = d
                /\ Boundary(s, j + 1)
             THEN w \o SubVersionFrom(s, j + 1, w, d)
             ELSE <<s[i]>> \o SubVersionFrom(s, i + 1, w, d)

SubVersion(s, w, d) == SubVersionFrom(s, 1, w, d)

\* re.sub(r"[_\-\/]+", " ", s): a run of separators becomes one space
IsTitleSeparator(c) == c \in {"_", "-", "/"}

RECURSIVE SubSeparatorsFrom(_, _)
SubSeparatorsFrom(s, i) ==
    IF i > Len(s) THEN <<>>
    ELSE IF IsTitleSeparator(s[i])
         THEN IF i > 1 /\ IsTitleSeparator(s[i - 1]) THEN SubSeparatorsFrom(s, i + 1)
              ELSE <<" ">> \o SubSeparatorsFrom(s, i + 1)
         ELSE <<s[i]>> \o SubSeparatorsFrom(s, i + 1)

SubSeparators(s) == SubSeparatorsFrom(s, 1)

\* keep the characters satisfying a class, drop the others
RECURSIVE DropChars(_, _)
DropChars(s, drop) ==
    IF s = <<>> THEN <<>>
    ELSE IF Head(s) \in drop THEN DropChars(Tail(s), drop)
    ELSE <<Head(s)>> \o DropChars(Tail(s), drop)


\* split on a one-character delimiter (str.split)
RECURSIVE SplitFrom(_, _, _, _)
SplitFrom(s, i, d, cur) ==
    IF i > Len(s) THEN <<cur>>
    ELSE IF s[i] = d THEN <<cur>> \o SplitFrom(s, i + 1, d, <<>>)
    ELSE SplitFrom(s, i + 1, d, Append(cur, s[i]))

Split(s, d) == SplitFrom(s, 1, d, <<>>)

RECURSIVE SeqFilterLen2(_)
SeqFilterLen2(parts) ==
    IF parts = <<>> THEN <<>>
    ELSE IF Len(Head(parts)) < 2 THEN SeqFilterLen2(Tail(parts))
    ELSE <<Head(parts)>> \o SeqFilterLen2(Tail(parts))

Range(f) == {f[i] : i \in DOMAIN f}

\* ------------------------------------------------------------------------
\* Shared/normalizer.py
\* ------------------------------------------------------------------------

\* characters kept by re.sub(r"[^\w\s\.\+#]", " ", text)
KeptByNormalizeText(c) == IsWordChar(c) \/ IsSpace(c) \/ c \in {".", "+", "#"}

normalize_text(text) ==
    IF text = <<>> THEN <<>>
    ELSE LET t1 == Strip(Lower(text))
             t2 == [i \in 1..Len(t1) |->
                        IF KeptByNormalizeText(t1[i]) THEN t1[i] ELSE " "]
         IN  CollapseWhitespace(t2)

normalize_skill_text2(text) ==
    IF text = <<>> THEN <<>>
    ELSE LET t1 == Strip(Lower(text))
             t2 == DropChars(t1, {"."})
             t3 == SubSeparators(t2)
             t4 == SubWord(t3, <<"p","r","o","g","r","a","m","m","i","n","g">>, <<>>)
             t5 == SubWord(t4, <<"l","a","n","g","u","a","g","e">>, <<>>)
             t6 == SubWord(t5, <<"f","r","a","m","e","w","o","r","k">>, <<>>)
             t7 == SubVersion(t6, <<"h","t","m","l">>, "5")
             t8 == SubVersion(t7, <<"c","s","s">>, "3")
             t9 == Replace(t8, <<"c"," ","s","h","a","r","p">>, <<"c","#">>)
             t10 == Replace(t9, <<"c","s","h","a","r","p">>, <<"c","#">>)
         IN  Strip(CollapseWhitespace(t10))

normalize_job_title(title) ==
    IF title = <<>> THEN <<>>
    ELSE LET t1 == SubSeparators(Lower(title))
             t2 == Replace(t1, <<".","n","e","t">>, <<" ","d","o","t"," ","n","e","t"," ">>)
             t3 == Replace(t2, <<"d","o","t","n","e","t">>, <<" ","d","o","t"," ","n","e","t"," ">>)
             t4 == Replace(t3, <<"a","s","p",".","n","e","t">>, <<" ","a","s","p"," ","n","e","t"," ">>)
             t5 == SelectSeq(t4, LAMBDA c : c \in LowerLetters \/ c \in Digits \/ IsSpace(c))
         IN  Strip(CollapseWhitespace(t5))

\* characters of the class [a-z0-9\+#\.] used by tokenize_text
IsTokenChar(c) == c \in LowerLetters \/ c \in Digits \/ c \in {"+", "#", "."}

\* length of the run of token characters starting at i
RECURSIVE TokenRun(_, _)
TokenRun(s, i) == IF i <= Len(s) /\ IsTokenChar(s[i]) THEN 1 + TokenRun(s, i + 1) ELSE 0

\* re.findall(r"\b[a-z0-9\+#\.]+\b", s): greedy run, backtracking to the
\* longest prefix that ends at a word boundary
RECURSIVE TokensFrom(_, _)
TokensFrom(s, i) ==
    IF i > Len(s) THEN {}
    ELSE LET run  == TokenRun(s, i)
             ends == {n \in 1..run : Boundary(s, i + n)}
         IN  IF Boundary(s, i) /\ ends # {}
             THEN LET n == CHOOSE m \in ends : \A k \in ends : k <= m
                  IN  {SubSeq(s, i, i + n - 1)} \cup TokensFrom(s, i + n)
             ELSE TokensFrom(s, i + 1)

tokenize_text(text) == TokensFrom(Lower(text), 1)

COMPOSITE_SEPARATORS ==
    << <<"/">>, <<"\\">>, <<",">>, <<" ","&"," ">>, <<" ","a","n","d"," ">>, <<"+">> >>

RECURSIVE ReplaceSeparators(_, _)
ReplaceSeparators(text, k) ==
    IF k > Len(COMPOSITE_SEPARATORS) THEN text
    ELSE ReplaceSeparators(Replace(text, COMPOSITE_SEPARATORS[k], <<"|">>), k + 1)

\* the split without the removal of fragments shorter than 2
split_composite_skill_keeping_short(raw_skill) ==
    IF raw_skill = <<>> THEN <<>>
    ELSE LET pieces == Split(ReplaceSeparators(Strip(Lower(raw_skill)), 1), "|")
         IN  [i \in 1..Len(pieces) |-> Strip(pieces[i])]

split_composite_skill(raw_skill) ==
    IF raw_skill = <<>> THEN <<>>
    ELSE LET text   == ReplaceSeparators(Strip(Lower(raw_skill)), 1)
             pieces == Split(text, "|")
             parts  == [i \in 1..Len(pieces) |-> Strip(pieces[i])]
         IN  SeqFilterLen2(parts)


\* ------------------------------------------------------------------------
\* Master data held by the store (MasterSkills, SkillImplications)
\* ------------------------------------------------------------------------

\* a JSON text column: NULL, text json.loads rejects, or a list of texts
JsonNull == [kind |-> "null", items |-> <<>>]

JsonMalformed == [kind |-> "malformed", items |-> <<>>]

JsonList(items) == [kind |-> "list", items |-> items]

\* NULL for integer columns and absent integer results
NoId == 0

NoRules == [kind |-> "none", block_if_contains |-> <<>>, allow_if_contains |-> <<>>]
\* rows of SELECT ... FROM MasterSkills; JSON text columns are shown parsed (see JsonList)
master_skill_list ==
    << [SkillID |-> 1, SkillName |-> <<"J","a","v","a">>, SkillCode |-> "language_java",
        Tokens |-> JsonList(<< <<"j","a","v","a">> >>), ParentSkillId |-> NoId,
        Aliases |-> JsonList(<< <<"C","o","r","e"," ","J","a","v","a">> >>),
        DisambiguationRules |->
            [kind |-> "object", block_if_contains |-> << <<"j","a","v","a","s","c","r","i","p","t">> >>,
             allow_if_contains |-> <<>>],
        SkillType |-> "programming", Category |-> "Language"],
       [SkillID |-> 2, SkillName |-> <<".","N","E","T">>, SkillCode |-> "framework_dotnet",
        Tokens |-> JsonNull, ParentSkillId |-> NoId,
        Aliases |-> JsonList(<< <<"d","o","t","n","e","t">> >>),
        DisambiguationRules |-> NoRules,
        SkillType |-> "framework", Category |-> "Backend Framework"],
       [SkillID |-> 3, SkillName |-> <<"A","S","P",".","N","E","T">>, SkillCode |-> "framework_aspnet",
        Tokens |-> JsonMalformed, ParentSkillId |-> NoId,
        Aliases |-> JsonNull,
        DisambiguationRules |-> [kind |-> "malformed", block_if_contains |-> <<>>,
                                 allow_if_contains |-> <<>>],
        SkillType |-> "framework", Category |-> "Backend Framework"],
       [SkillID |-> 4, SkillName |-> <<"R","e","a","c","t">>, SkillCode |-> "framework_react",
        Tokens |-> JsonList(<< <<"r","e","a","c","t">> >>), ParentSkillId |-> NoId,
        Aliases |-> JsonMalformed,
        DisambiguationRules |->
            [kind |-> "object", block_if_contains |-> <<>>,
             allow_if_contains |-> << <<"r","e","a","c","t">> >>],
        SkillType |-> "framework", Category |-> "Frontend Framework"],
       [SkillID |-> 5, SkillName |-> <<"S","p","r","i","n","g">>, SkillCode |-> "framework_spring",
        Tokens |-> JsonNull, ParentSkillId |-> 1,
        Aliases |-> JsonNull,
        DisambiguationRules |-> NoRules,
        SkillType |-> "framework", Category |-> "Backend Framework"] >>

\* rows of SkillImplications: experience in FromSkillCode implies credit
\* for ToSkillCode
SkillImplications ==
    { [FromSkillCode |-> "framework_aspnet", ToSkillCode |-> "framework_dotnet"] }

\* cosine_similarity(embed_fn(normalized), entry.embedding) in thousandths,
\* for the normalized texts whose embedding lies near a master skill
EmbeddingCosine(normalized, SkillID) ==
    IF normalized = <<"j","v","m">> /\ SkillID = 1 THEN 940
    ELSE IF normalized = <<"j","v","m">> /\ SkillID = 5 THEN 930
    ELSE IF normalized = <<"r","e","a","c","t","j","s">> /\ SkillID = 4 THEN 940
    ELSE IF normalized = <<"c","o","b","o","l">> /\ SkillID = 1 THEN 610
    ELSE 0

\* cosine at or above which the vector tier accepts (0.92)
VECTOR_THRESHOLD == 920

\* The rows both callers pass as vector_index come from
\* SELECT SkillID, SkillName, SkillCode, Aliases, DisambiguationRules,
\* SkillType, SkillVector AS embedding: they carry no skill_ref column.
vector_index ==
    [i \in 1..Len(master_skill_list) |->
        [SkillID |-> master_skill_list[i].SkillID, skill_ref |-> NoId]]

\* ------------------------------------------------------------------------
\* Shared/normalizer.py: disambiguation and the four-tier matcher
\* ------------------------------------------------------------------------

\* "pass", "block", or "raise" (rules.get on a JSON value that is no object)
passes_disambiguation(skill, normalized, context) ==
    LET rules    == skill.DisambiguationRules
        combined == Lower(normalized \o <<" ">> \o context)
    IN  IF rules.kind = "none" THEN "pass"
        ELSE IF rules.kind = "malformed" THEN "pass"
        ELSE IF rules.kind = "nonobject" THEN "raise"
        ELSE IF \E k \in DOMAIN rules.block_if_contains :
                    Contains(combined, Lower(rules.block_if_contains[k]))
             THEN "block"
        ELSE IF rules.allow_if_contains # <<>>
             THEN IF \E k \in DOMAIN rules.allow_if_contains :
                         Contains(combined, Lower(rules.allow_if_contains[k]))
                  THEN "pass" ELSE "block"
        ELSE "pass"

NoMatch(method) ==
    [SkillID |-> NoId, SkillCode |-> None, SkillType |-> None,
     confidence |-> 0, method |-> method]

\* the tuple returned on a positive match, after disambiguation
Matched(skill, normalized, context, confidence, method) ==
    LET d == passes_disambiguation(skill, normalized, context)
    IN  IF d = "raise" THEN NoMatch("raise")
        ELSE IF d = "block" THEN NoMatch("disambiguation_blocked")
        ELSE [SkillID |-> skill.SkillID, SkillCode |-> skill.SkillCode,
              SkillType |-> skill.SkillType, confidence |-> confidence,
              method |-> method]

ExactHit(skill, normalized) ==
    normalize_skill_text2(normalize_text(skill.SkillName)) = normalized

AliasHit(skill, normalized) ==
    /\ skill.Aliases.kind = "list"
    /\ \E k \in DOMAIN skill.Aliases.items :
          normalize_skill_text2(normalize_text(skill.Aliases.items[k])) = normalized

RuleHit(skill, normalized) ==
    /\ skill.Tokens.kind = "list"
    /\ LET tokens            == skill.Tokens.items
           normalized_tokens == tokenize_text(normalized)
       IN  /\ ~ ( /\ \E k \in DOMAIN tokens : Len(tokens[k]) = 1
                  /\ Cardinality(normalized_tokens) > 1 )
           /\ \A k \in DOMAIN tokens : Lower(tokens[k]) \in normalized_tokens

\* first index of master_skills satisfying Hit, or 0
FirstHit(master_skills, Hit(_)) ==
    IF \E i \in DOMAIN master_skills : Hit(master_skills[i])
    THEN CHOOSE i \in DOMAIN master_skills :
            /\ Hit(master_skills[i])
            /\ \A j \in 1..(i - 1) : ~ Hit(master_skills[j])
    ELSE 0

\* the scan "if score > best_score" over the index, from entry i on
RECURSIVE BestEntry(_, _, _, _, _)
BestEntry(vindex, normalized, i, best_skill, best_score) ==
    IF i > Len(vindex) THEN [best_skill |-> best_skill, best_score |-> best_score]
    ELSE LET score == EmbeddingCosine(normalized, vindex[i].SkillID)
         IN  IF score > best_score
             THEN BestEntry(vindex, normalized, i + 1, i, score)
             ELSE BestEntry(vindex, normalized, i + 1, best_skill, best_score)

VectorTier(master_skills, vindex, normalized, context) ==
    IF vindex = <<>> THEN NoMatch("no_match")
    ELSE LET b == BestEntry(vindex, normalized, 1, 0, 0)
         IN  IF b.best_skill # 0 /\ b.best_score >= VECTOR_THRESHOLD
             THEN IF vindex[b.best_skill].skill_ref = NoId
                  THEN NoMatch("raise")   \* AttributeError: no skill_ref
                  ELSE Matched(master_skills[vindex[b.best_skill].skill_ref],
                               normalized, context, b.best_score, "vector")
             ELSE NoMatch("no_match")

\* confidence is in thousandths
normalize_and_match_skill(raw_name, master_skills, vindex, context_text) ==
    LET normalized == normalize_skill_text2(normalize_text(raw_name))
        context    == normalize_text(context_text)
        e == FirstHit(master_skills, LAMBDA sk : ExactHit(sk, normalized))
        a == FirstHit(master_skills, LAMBDA sk : AliasHit(sk, normalized))
        r == FirstHit(master_skills, LAMBDA sk : RuleHit(sk, normalized))
    IN  IF normalized = <<>> THEN NoMatch("empty")
        ELSE IF e # 0 THEN Matched(master_skills[e], normalized, context, 1000, "exact")
        ELSE IF a # 0 THEN Matched(master_skills[a], normalized, context, 950, "alias")
        ELSE IF r # 0 THEN Matched(master_skills[r], normalized, context, 900, "rule")
        ELSE VectorTier(master_skills, vindex, normalized, context)


\* ------------------------------------------------------------------------
\* Candidate/postprocessor.py and Candidate/vectorizer.py: ingestion
\* ------------------------------------------------------------------------

\* bounds of the ingestion model: roles processed and syncs started by one
\* process
MaxRoles == 2

MaxIngestions == 2

\* dates are month indices 1..; NoDate is None
NoDate == 0

\* end_date_raw "Present" (also None and "N/A")
Present == 0

\* month index of the default ref_date "2026-01-01" of calculate_duration
DEFAULT_REF_DATE == 2

\* month index of datetime.now(), the ref_date the job executor passes
RunDate == 3

\* whole months from start to end; end "Present" resolves to ref_date
calculate_duration(start_raw, end_raw, ref_date) ==
    LET end_dt == IF end_raw = Present THEN ref_date ELSE end_raw
    IN  end_dt - start_raw

\* weights in tenths
SOURCE_EVIDENCE_WEIGHT ==
    ("skills_section" :> 10) @@ ("technology_list" :> 9) @@
    ("responsibility" :> 7) @@ ("implicit" :> 0)

EVIDENCE_STRENGTH ==
    ("responsibility" :> 3) @@ ("role_title" :> 2) @@ ("skills_section" :> 1)

ROLE_TITLE_SKILL_MAP ==
    << [key |-> <<"d","o","t"," ","n","e","t"," ","d","e","v","e","l","o","p","e","r">>, skill_codes |-> <<"framework_dotnet">>],
       [key |-> <<"j","a","v","a"," ","d","e","v","e","l","o","p","e","r">>, skill_codes |-> <<"language_java">>],
       [key |-> <<"p","y","t","h","o","n"," ","d","e","v","e","l","o","p","e","r">>, skill_codes |-> <<"language_python">>],
       [key |-> <<"f","r","o","n","t","e","n","d"," ","d","e","v","e","l","o","p","e","r">>,
        skill_codes |-> <<"web_html", "web_css", "language_javascript">>],
       [key |-> <<"b","a","c","k","e","n","d"," ","d","e","v","e","l","o","p","e","r">>, skill_codes |-> <<>>] >>

NORMALIZATION_PRIORITY ==
    ("exact" :> 4) @@ ("alias" :> 3) @@ ("rule" :> 2) @@ ("vector" :> 1)

Priority(m) == IF m \in DOMAIN NORMALIZATION_PRIORITY THEN NORMALIZATION_PRIORITY[m] ELSE 0

\* max(methods, key=priority, default="unknown"): the first maximal element
resolve_normalization_method(methods) ==
    IF methods = <<>> THEN "unknown"
    ELSE LET i == CHOOSE k \in DOMAIN methods :
                    /\ \A j \in DOMAIN methods : Priority(methods[j]) <= Priority(methods[k])
                    /\ \A j \in 1..(k - 1) : Priority(methods[j]) < Priority(methods[k])
         IN  methods[i]

infer_level_from_title(title) ==
    LET t == Lower(title)
    IN  IF Contains(t, <<"i","n","t","e","r","n">>) \/ Contains(t, <<"t","r","a","i","n","e","e">>) THEN "junior"
        ELSE IF Contains(t, <<"j","u","n","i","o","r">>) \/ Contains(t, <<"a","s","s","o","c","i","a","t","e">>) THEN "junior"
        ELSE IF \/ Contains(t, <<"s","e","n","i","o","r">>)
                \/ Contains(t, <<"l","e","a","d">>)
                \/ Contains(t, <<"p","r","i","n","c","i","p","a","l">>) THEN "senior"
        ELSE "mid"

\* the instance fields of a fresh SkillMetrics(); confidence_sources is a
\* class attribute and lives in the variable confidence_sources
SkillMetrics ==
    [junior_months |-> 0, mid_months |-> 0, senior_months |-> 0,
     first_used |-> NoDate, last_used |-> NoDate, evidence_score |-> 0,
     total_months |-> 0, confidence_scores |-> <<>>, match_confidence |-> 0,
     evidence_sources |-> {}, max_evidence_strength |-> 1,
     normalization_confidence |-> 0, has_presence |-> FALSE]

\* skill_map[code] of a defaultdict(SkillMetrics)
Acc(map, code) == IF code \in DOMAIN map THEN map[code] ELSE SkillMetrics

Put(map, code, acc) == (code :> acc) @@ map

\* one mention per fragment of every extracted skill that is not implicit
RECURSIVE get_job_skill_mentions(_)
get_job_skill_mentions(extracted_skills) ==
    IF extracted_skills = <<>> THEN <<>>
    ELSE LET s      == Head(extracted_skills)
             skills == split_composite_skill(s.raw_name)
             rest   == get_job_skill_mentions(Tail(extracted_skills))
         IN  IF s.source = "implicit" THEN rest
             ELSE [i \in 1..Len(skills) |->
                      [raw_name |-> Strip(skills[i]), source |-> s.source,
                       confidence |-> s.confidence]] \o rest

\* the role-title credit at the head of process_extracted_skills
RECURSIVE CreditCodes(_, _)
CreditCodes(map, codes) ==
    IF codes = <<>> THEN map
    ELSE LET acc == Acc(map, Head(codes))
         IN  CreditCodes(
                Put(map, Head(codes),
                    [acc EXCEPT !.has_presence = TRUE,
                                !.evidence_sources = @ \cup {"role_title"}]),
                Tail(codes))

RECURSIVE RoleTitleCredit(_, _, _)
RoleTitleCredit(map, role_title, k) ==
    IF k > Len(ROLE_TITLE_SKILL_MAP) THEN map
    ELSE IF role_title # <<>> /\ Contains(role_title, ROLE_TITLE_SKILL_MAP[k].key)
         THEN RoleTitleCredit(CreditCodes(map, ROLE_TITLE_SKILL_MAP[k].skill_codes),
                              role_title, k + 1)
         ELSE RoleTitleCredit(map, role_title, k + 1)

MaxOf(S) == CHOOSE x \in S : \A y \in S : y <= x

MinOf(S) == CHOOSE x \in S : \A y \in S : x <= y

RECURSIVE SumSeq(_)
SumSeq(q) == IF q = <<>> THEN 0 ELSE Head(q) + SumSeq(Tail(q))

\* the update of one accumulator by one resolved mention (lines 128-163)
UpdateAcc(acc, mention, level, months, start, end) ==
    LET a1 == IF level = "junior" THEN [acc EXCEPT !.junior_months = @ + months]
              ELSE IF level = "mid" THEN [acc EXCEPT !.mid_months = @ + months]
              ELSE [acc EXCEPT !.senior_months = @ + months]
        a2 == [a1 EXCEPT !.first_used =
                            IF @ = NoDate THEN start ELSE MinOf({@, start}),
                         !.last_used =
                            IF @ = NoDate THEN end ELSE MaxOf({@, end}),
                         !.evidence_score = @ + SOURCE_EVIDENCE_WEIGHT[mention.source],
                         !.evidence_sources = @ \cup {mention.source},
                         !.has_presence = @ \/ mention.source = "skills_section"]
    IN  a2

\* blended confidence in thousandths
BlendedConfidence(mention, confidence) ==
    ((6 * mention.confidence + 4 * confidence) * SOURCE_EVIDENCE_WEIGHT[mention.source]) \div 100

\* inputs of the ingestion model: job titles, (start, end) pairs and
\* extracted-skill lists of a RawExperienceItem
Titles ==
    { <<"S","e","n","i","o","r"," ","J","a","v","a"," ","D","e","v","e","l","o","p","e","r">>,
      <<"J","u","n","i","o","r"," ","D","e","v","e","l","o","p","e","r">>,
      <<".","N","E","T"," ","D","e","v","e","l","o","p","e","r">> }

\* role_title of sync_profile_to_master for each job title of the model
RoleTitles == { <<t, normalize_job_title(t)>> : t \in Titles }

RoleTitleOf(job_title) == (CHOOSE p \in RoleTitles : p[1] = job_title)[2]

\* infer_level_from_title(role_title) for each job title of the model
RoleLevels == { <<t, infer_level_from_title(RoleTitleOf(t))>> : t \in Titles }

RoleLevelOf(job_title) == (CHOOSE p \in RoleLevels : p[1] = job_title)[2]

\* <<1, 25>> is a role from 2022-01 to 2024-01
DatePairs == { <<1, 2>>, <<2, 1>>, <<1, Present>>, <<1, 25>> }

\* ExtractedSkill.confidence in thousandths
MentionConfidence == 1000

Skill(raw_name, source) ==
    [raw_name |-> raw_name, source |-> source, confidence |-> MentionConfidence]

SkillLists ==
    { <<>>,
      << Skill(<<"J","a","v","a">>, "skills_section") >>,
      << Skill(<<"C","o","r","e"," ","J","a","v","a","/","j","a","v","a"," ","s","e">>, "responsibility") >>,
      << Skill(<<"R","e","a","c","t"," ","N","a","t","i","v","e">>, "responsibility"),
         Skill(<<"C","o","b","o","l">>, "implicit") >>,
      << Skill(<<"J","a","v","a">>, "technology_list") >>,
      << Skill(<<"j","v","m">>, "skills_section") >> }

\* the mentions sync_profile_to_master hands to process_extracted_skills:
\* get_job_skill_mentions runs in build_professional_profile and again in
\* the role loop
MentionsOf(skills) == get_job_skill_mentions(get_job_skill_mentions(skills))

RoleMentions == { <<l, MentionsOf(l)>> : l \in SkillLists }

RoleMentionsOf(extracted_skills) ==
    (CHOOSE p \in RoleMentions : p[1] = extracted_skills)[2]

MentionNames == UNION { {m.raw_name : m \in Range(MentionsOf(l))} : l \in SkillLists }

\* the call of process_extracted_skills: the context of a profile role is
\* job.get("responsibilities", ""), and a profile role has no such key
MatchResults ==
    { <<n, normalize_and_match_skill(n, master_skill_list, vector_index, <<>>)>> :
        n \in MentionNames }

MatchOf(raw_name) == (CHOOSE p \in MatchResults : p[1] = raw_name)[2]

\* one iteration of the mention loop of process_extracted_skills over
\* st = [map, sources, raised, accepted], m being the matcher's answer for
\* the mention
ProcessMention(st, mention, m, level, months, start, end) ==
    IF m.method = "raise" THEN [st EXCEPT !.raised = TRUE]
    ELSE IF m.SkillCode = None THEN st
    ELSE LET acc == UpdateAcc(Acc(st.map, m.SkillCode), mention,
                              level, months, start, end)
         IN  IF ~ (acc.evidence_sources \subseteq DOMAIN EVIDENCE_STRENGTH)
             THEN [st EXCEPT !.raised = TRUE]      \* KeyError
             ELSE [st EXCEPT
                     !.map = Put(@, m.SkillCode,
                                 [acc EXCEPT
                                    !.max_evidence_strength =
                                        MaxOf({EVIDENCE_STRENGTH[src] :
                                                 src \in acc.evidence_sources}),
                                    !.confidence_scores =
                                        Append(@, BlendedConfidence(mention, m.confidence))]),
                     !.sources = Append(@, m.method),
                     !.accepted = Put(@, m.SkillCode,
                                      (IF m.SkillCode \in DOMAIN @
                                       THEN @[m.SkillCode] ELSE {}) \cup {m.method})]

\* the mention loop of process_extracted_skills; it stops at the first
\* exception
RECURSIVE MentionLoop(_, _, _, _, _, _)
MentionLoop(st, mentions, level, months, start, end) ==
    IF mentions = <<>> \/ st.raised THEN st
    ELSE MentionLoop(ProcessMention(st, Head(mentions),
                                    MatchOf(Head(mentions).raw_name),
                                    level, months, start, end),
                     Tail(mentions), level, months, start, end)

\* the total with the senior band left out
TotalMonths_without_senior(acc) == acc.junior_months + acc.mid_months

\* acc.total_months of the loop after the roles (vectorizer.py 135-140)
TotalMonths(acc) == acc.junior_months + acc.mid_months + acc.senior_months

\* acc.match_confidence: mean of confidence_scores, 0 when empty
MatchConfidence(acc) ==
    IF acc.confidence_scores = <<>> THEN 0
    ELSE SumSeq(acc.confidence_scores) \div Len(acc.confidence_scores)

\* SELECT SkillID FROM MasterSkills WHERE SkillCode = ?
MasterIdOf(skill_code) ==
    IF \E i \in DOMAIN master_skill_list : master_skill_list[i].SkillCode = skill_code
    THEN master_skill_list[CHOOSE i \in DOMAIN master_skill_list :
                              master_skill_list[i].SkillCode = skill_code].SkillID
    ELSE NoId

\* the CandidateSkills row written by store_candidate_skill
SkillRow(metrics, sources) ==
    [ExperienceMonths |-> metrics.total_months,
     LastUsedDate |-> metrics.last_used,
     MatchConfidence |-> metrics.match_confidence,
     TotalMonths |-> metrics.total_months,
     JuniorMonths |-> metrics.junior_months,
     MidMonths |-> metrics.mid_months,
     SeniorMonths |-> metrics.senior_months,
     FirstUsedDate |-> metrics.first_used,
     EvidenceSources |-> metrics.evidence_sources,
     EvidenceScore |-> metrics.evidence_score,
     NormalizationConfidence |->
        IF metrics.confidence_scores = <<>> THEN 0
        ELSE MaxOf(Range(metrics.confidence_scores)),
     NormalizationMethod |-> resolve_normalization_method(sources),
     MaxEvidenceStrength |-> metrics.max_evidence_strength]

\* ------------------------------------------------------------------------
\* Employer/MatchingEngine.py: eligibility gate
\* ------------------------------------------------------------------------

\* months; a month stands for the 30 days of timedelta(days=...) and of
\* (date.today() - last_used).days / 30
SENIORITY_THRESHOLDS ==
    ("Junior" :> [min_total_months |-> 6,  min_mid_months |-> 0,  min_senior_months |-> 0]) @@
    ("Mid"    :> [min_total_months |-> 18, min_mid_months |-> 12, min_senior_months |-> 0]) @@
    ("Senior" :> [min_total_months |-> 36, min_mid_months |-> 24, min_senior_months |-> 12]) @@
    ("Lead"   :> [min_total_months |-> 60, min_mid_months |-> 36, min_senior_months |-> 24])

RECENCY_MONTHS_LIMIT == 36

\* date.today() as a month index
Today == 100

SkillRequirement(raw_skill, requirement_level, skill_type_hint, min_months) ==
    [kind |-> "skill", raw_skill |-> raw_skill, category |-> "",
     requirement_level |-> requirement_level, skill_type_hint |-> skill_type_hint,
     min_months |-> min_months, min_required |-> 0,
     expected_evidence |-> "resume_skill"]

CategoryRequirement(category, requirement_level, min_required) ==
    [kind |-> "category", raw_skill |-> <<>>, category |-> category,
     requirement_level |-> requirement_level, skill_type_hint |-> "",
     min_months |-> 0, min_required |-> min_required,
     expected_evidence |-> ""]

\* role_context of the job profiles of the model
RoleContext == <<"b","a","c","k","e","n","d"," ","t","e","a","m">>

\* raw skills a job profile of the model may name
JdSkillNames ==
    { <<"J","a","v","a">>, <<".","N","E","T">>, <<"S","p","r","i","n","g">>,
      <<"A","g","i","l","e">>, <<"j","v","m">>, <<"D","o","c","k","e","r">> }

JdMatchResults ==
    { <<n, normalize_and_match_skill(n, master_skill_list, vector_index, RoleContext)>> :
        n \in JdSkillNames }

\* normalize_and_match_skill(req.raw_skill, ..., context_text=role_context)
JdMatchOf(raw_skill) == (CHOOSE p \in JdMatchResults : p[1] = raw_skill)[2]

_get_required_evidence_strength(requirement_level) ==
    IF requirement_level = "hard" THEN 2 ELSE 1

MasterRow(SkillID) ==
    master_skill_list[CHOOSE i \in DOMAIN master_skill_list :
                         master_skill_list[i].SkillID = SkillID]

MasterIds == {master_skill_list[i].SkillID : i \in DOMAIN master_skill_list}

\* the recursive CTE: the root and every row whose ParentSkillId is in the tree
RECURSIVE SkillTree(_)
SkillTree(ids) ==
    LET next == ids \cup {k \in MasterIds : MasterRow(k).ParentSkillId \in ids}
    IN  IF next = ids THEN ids ELSE SkillTree(next)

_resolve_skill_tree(root_skill_code) ==
    SkillTree({k \in MasterIds : MasterRow(k).SkillCode = root_skill_code})

\* SELECT ms.SkillID FROM SkillImplications si JOIN MasterSkills ms
\* ON ms.SkillCode = si.ToSkillCode WHERE si.FromSkillCode = ?
_resolve_implied_skills(skill_code) ==
    {k \in MasterIds :
        \E si \in SkillImplications :
            si.FromSkillCode = skill_code /\ MasterRow(k).SkillCode = si.ToSkillCode}

CandidateIds(store) == {k[1] : k \in DOMAIN store}

\* the WHERE clause without its SeniorMonths condition
PassesThresholds_without_senior(row, thresholds, recency_cutoff) ==
    /\ row.MidMonths >= thresholds.min_mid_months
    /\ row.LastUsedDate # NoDate
    /\ row.LastUsedDate >= recency_cutoff

\* the WHERE clause both queries share, on one CandidateSkills row
PassesThresholds(row, thresholds, recency_cutoff) ==
    /\ row.MidMonths >= thresholds.min_mid_months
    /\ row.SeniorMonths >= thresholds.min_senior_months
    /\ row.LastUsedDate # NoDate
    /\ row.LastUsedDate >= recency_cutoff

\* CASE 1: the query for a resolved SkillRequirement
SkillQuery(store, acceptable_skill_ids, req, required_strength, thresholds, recency_cutoff) ==
    {k[1] : k \in {x \in DOMAIN store :
        /\ x[2] \in acceptable_skill_ids
        /\ (store[x].TotalMonths >= req.min_months
              \/ store[x].MaxEvidenceStrength >= required_strength)
        /\ PassesThresholds(store[x], thresholds, recency_cutoff)}}

\* CASE 2: the query for a CategoryRequirement
CategoryQuery(store, req, required_strength, thresholds, recency_cutoff) ==
    LET hit(c) == {x \in DOMAIN store :
                     /\ x[1] = c
                     /\ MasterRow(x[2]).Category = req.category
                     /\ (store[x].TotalMonths > 0
                           \/ store[x].MaxEvidenceStrength >= required_strength)
                     /\ PassesThresholds(store[x], thresholds, recency_cutoff)}
    IN  {c \in CandidateIds(store) :
            hit(c) # {} /\ Cardinality({x[2] : x \in hit(c)}) >= req.min_required}

\* the skip taken for no requirement
Unresolved_never(m) == FALSE

\* if not skill_id: continue
Unresolved(m) == m.SkillID = NoId

\* every requirement taken as a filter
HardRequirements_all(requirements) == requirements

HardRequirements(requirements) ==
    SelectSeq(requirements, LAMBDA r : r.requirement_level = "hard")

\* candidate_ids of one hard requirement: CASE 1 over the skill tree and the
\* implied skills of the resolved skill m, CASE 2 over the category
CandidateIdsFor(store, seniority, req, m) ==
    LET required_strength == _get_required_evidence_strength(req.requirement_level)
        thresholds == SENIORITY_THRESHOLDS[seniority]
        recency_cutoff == Today - RECENCY_MONTHS_LIMIT
    IN  IF req.kind = "skill"
        THEN SkillQuery(store,
                 _resolve_skill_tree(m.SkillCode) \cup _resolve_implied_skills(m.SkillCode),
                 req, required_strength, thresholds, recency_cutoff)
        ELSE CategoryQuery(store, req, required_strength, thresholds, recency_cutoff)

\* eligible is [none |-> TRUE] for None, else [none |-> FALSE, ids |-> the set]
Intersect(eligible, candidate_ids) ==
    IF eligible.none THEN candidate_ids ELSE eligible.ids \cap candidate_ids

\* one iteration of the loop over hard_requirements, m being the matcher's
\* answer for a SkillRequirement; stop is the early return on an empty set
CheckRequirement(store, seniority, req, m, eligible) ==
    IF req.kind = "skill" /\ m.method = "raise"
    THEN [raised |-> TRUE, stop |-> TRUE, eligible |-> eligible]
    ELSE IF req.kind = "skill" /\ Unresolved(m)
    THEN [raised |-> FALSE, stop |-> FALSE, eligible |-> eligible]
    ELSE LET now == Intersect(eligible, CandidateIdsFor(store, seniority, req, m))
         IN  [raised |-> FALSE, stop |-> now = {},
              eligible |-> [none |-> FALSE, ids |-> now]]

\* the matcher's answer for a requirement; a CategoryRequirement is not matched
RequirementMatch(req) ==
    IF req.kind = "skill" THEN JdMatchOf(req.raw_skill) ELSE NoMatch("no_match")

\* the loop over hard_requirements from index i on
RECURSIVE GateLoop(_, _, _, _, _)
GateLoop(store, seniority, hard_requirements, i, st) ==
    IF st.stop \/ i > Len(hard_requirements)
    THEN [raised |-> st.raised,
          ids |-> IF st.raised \/ st.eligible.none THEN {} ELSE st.eligible.ids]
    ELSE GateLoop(store, seniority, hard_requirements, i + 1,
                  CheckRequirement(store, seniority, hard_requirements[i],
                                   RequirementMatch(hard_requirements[i]),
                                   st.eligible))

\* [raised, ids]: the set returned, or the exception of the matcher
get_eligible_candidates(store, jd_data) ==
    IF HardRequirements(jd_data.requirements) = <<>>
    THEN [raised |-> FALSE, ids |-> {}]
    ELSE GateLoop(store, jd_data.seniority_level,
                  HardRequirements(jd_data.requirements), 1,
                  [raised |-> FALSE, stop |-> FALSE,
                   eligible |-> [none |-> TRUE, ids |-> {}]])

\* ------------------------------------------------------------------------
\* Employer/MatchingEngine.py: scoring
\* ------------------------------------------------------------------------
\* Weights and scores are in units of 0.00001, the experience factor in
\* thousandths, the recency factor in tenths, the evidence factor in thirds,
\* the normalization penalty in hundredths; the score returned is in units
\* of 0.0001 (1000000 is 100.0).

One == 100000

\* round(x, 4) of a value in units of 0.00001
Round4(x) == ((x + 5) \div 10) * 10

\* floor(n * 10^k / d), digit by digit
RECURSIVE ScaledRatio(_, _, _)
ScaledRatio(n, d, k) ==
    IF k = 0 THEN [q |-> n \div d, r |-> n % d]
    ELSE LET p == ScaledRatio(n, d, k - 1)
         IN  [q |-> p.q * 10 + (p.r * 10) \div d, r |-> (p.r * 10) % d]

\* math.log(1 + t / m) in thousandths for 1 + t/m < e, by the series
\* 2 * (z + z^3/3 + z^5/5 + z^7/7 + z^9/9) with z = t / (t + 2m)
LogThousandths(t, m) ==
    LET z  == (t * 10000) \div (t + 2 * m)
        z2 == (z * z) \div 10000
        z3 == (z2 * z) \div 10000
        z5 == (z3 * z2) \div 10000
        z7 == (z5 * z2) \div 10000
        z9 == (z7 * z2) \div 10000
    IN  (2 * (z + z3 \div 3 + z5 \div 5 + z7 \div 7 + z9 \div 9)) \div 10

\* the logarithm without the cap at 1.0
experience_factor_uncapped(total_months, min_months) ==
    LogThousandths(total_months, IF min_months > 1 THEN min_months ELSE 1)

\* min(1.0, math.log(1 + total_months / max(min_months, 1))); the logarithm
\* reaches 1 when 1 + t/m >= e = 2.71828...
experience_factor(total_months, min_months) ==
    LET m == IF min_months > 1 THEN min_months ELSE 1
    IN  IF (total_months + m) * 100000 >= 271828 * m THEN 1000
        ELSE LogThousandths(total_months, m)

\* months_since = (date.today() - LastUsedDate).days / 30
recency_factor(last_used) ==
    LET months_since == Today - last_used
    IN  IF months_since <= 12 THEN 10
        ELSE IF months_since <= 36 THEN 8
        ELSE IF months_since <= 60 THEN 6 ELSE 3

\* min(MaxEvidenceStrength / 3.0, 1.0), in thirds
evidence_factor(strength) == IF strength < 3 THEN strength ELSE 3

\* the penalty applied to every method
norm_penalty_always(method) == 85

norm_penalty(method) == IF method = "vector" THEN 85 ELSE 100

jd_weight(req) == IF req.requirement_level = "hard" THEN 10 ELSE 4

\* skill_type_weights.get(key, 1.0)
WeightGet(skill_type_weights, key) ==
    IF key \in DOMAIN skill_type_weights THEN skill_type_weights[key] ELSE One

\* float(jd_weight) * float(skill_weight); a CategoryRequirement is weighted
\* as "framework"
CompositeWeight(req, skill_type_weights) ==
    LET skill_weight == WeightGet(skill_type_weights,
                            IF req.kind = "skill" THEN req.skill_type_hint
                            ELSE "framework")
    IN  (skill_weight * jd_weight(req)) \div 10

calculate_max_possible_score(jd_profile, skill_type_weights) ==
    Round4(SumSeq([i \in DOMAIN jd_profile.requirements |->
                      CompositeWeight(jd_profile.requirements[i], skill_type_weights)]))

\* the product jd_weight * skill_weight * exp * recency * evidence * penalty
FinalScore(composite, exp, row) ==
    LET a == (composite * exp) \div 1000
        b == (a * recency_factor(row.LastUsedDate)) \div 10
        c == (b * evidence_factor(row.MaxEvidenceStrength)) \div 3
    IN  (c * norm_penalty(row.NormalizationMethod)) \div 100

\* the rows of one candidate joined with MasterSkills, keyed by MasterSkillID
RowsOf(store, cid) == {k[2] : k \in {x \in DOMAIN store : x[1] = cid}}

\* by_skill.get(skill_code): NoId when the candidate has no row of that code
BySkill(store, cid, skill_code) ==
    LET hit == {k \in RowsOf(store, cid) : MasterRow(k).SkillCode = skill_code}
    IN  IF hit = {} THEN NoId ELSE CHOOSE k \in hit : TRUE

\* max(matches, key=(TotalMonths, MaxEvidenceStrength)): the first maximal row
\* in the order the query returned them, which SQL leaves open; order is
\* "asc" or "desc" by MasterSkillID
BestOf(store, cid, matches, order) ==
    LET better(a, b) ==
            \/ store[<<cid, a>>].TotalMonths > store[<<cid, b>>].TotalMonths
            \/ /\ store[<<cid, a>>].TotalMonths = store[<<cid, b>>].TotalMonths
               /\ store[<<cid, a>>].MaxEvidenceStrength
                     > store[<<cid, b>>].MaxEvidenceStrength
        top == {a \in matches : \A b \in matches : ~better(b, a)}
    IN  IF order = "asc" THEN MinOf(top) ELSE MaxOf(top)

Unmatched(req) == [kind |-> req.kind, matched |-> FALSE, months |-> 0, via |-> NoId]

\* the row a requirement is scored on: by_skill.get(skill_code) for a
\* SkillRequirement, the best row of the category for a CategoryRequirement
ChosenRow(store, cid, req, m, order) ==
    IF req.kind = "skill" THEN BySkill(store, cid, m.SkillCode)
    ELSE LET matches == {k \in RowsOf(store, cid) : MasterRow(k).Category = req.category}
         IN  IF matches = {} THEN NoId ELSE BestOf(store, cid, matches, order)

\* the score of a matched requirement added to acc; date arithmetic on a
\* NULL LastUsedDate raises
AddScore(acc, req, composite, chosen, row) ==
    IF row.LastUsedDate = NoDate THEN [acc EXCEPT !.raised = TRUE]
    ELSE [acc EXCEPT
            !.total_score =
                @ + FinalScore(composite,
                               experience_factor(row.TotalMonths,
                                   IF req.kind = "skill" THEN req.min_months ELSE 1),
                               row),
            !.breakdown = Append(@, [kind |-> req.kind, matched |-> TRUE,
                                     months |-> row.TotalMonths, via |-> chosen])]

ScoreChosen(store, cid, req, composite, chosen, acc) ==
    IF chosen = NoId THEN [acc EXCEPT !.breakdown = Append(@, Unmatched(req))]
    ELSE AddScore(acc, req, composite, chosen, store[<<cid, chosen>>])

\* one iteration of the loop over jd_profile.requirements
ScoreRequirement(store, cid, req, m, skill_type_weights, order, acc) ==
    IF req.kind = "skill" /\ m.method = "raise" THEN [acc EXCEPT !.raised = TRUE]
    ELSE ScoreChosen(store, cid, req, CompositeWeight(req, skill_type_weights),
                     ChosenRow(store, cid, req, m, order), acc)

\* the loop over jd_profile.requirements from index i on; it stops at the
\* first exception
RECURSIVE ScoreLoop(_, _, _, _, _, _, _)
ScoreLoop(store, cid, jd_profile, skill_type_weights, order, i, acc) ==
    IF i > Len(jd_profile.requirements) \/ acc.raised THEN acc
    ELSE ScoreLoop(store, cid, jd_profile, skill_type_weights, order, i + 1,
                   ScoreRequirement(store, cid, jd_profile.requirements[i],
                                    RequirementMatch(jd_profile.requirements[i]),
                                    skill_type_weights, order, acc))

\* the eligible ids in ascending order, the order a set of small ints iterates
RECURSIVE SetToSeq(_)
SetToSeq(S) == IF S = {} THEN <<>> ELSE <<MinOf(S)>> \o SetToSeq(S \ {MinOf(S)})

\* [raised, score, breakdown] of a finished loop r: round((total_score /
\* max_score if max_score else 0) * 100, 4) and the breakdown, or the
\* exception raised on the way
NormalizedScore(r, max_score) ==
    [raised |-> r.raised,
     score |-> IF r.raised \/ max_score = 0 THEN 0
               ELSE (ScaledRatio(r.total_score, max_score, 7).q + 5) \div 10,
     breakdown |-> r.breakdown]

_score_candidate(store, cid, jd_profile, skill_type_weights, order, max_score) ==
    NormalizedScore(ScoreLoop(store, cid, jd_profile, skill_type_weights, order, 1,
                              [raised |-> FALSE, total_score |-> 0, breakdown |-> <<>>]),
                    max_score)

\* ------------------------------------------------------------------------
\* Employer/schemas/LLMResponse.py, Employer/PostProcessor.py
\* ------------------------------------------------------------------------

\* an empty dict
Empty == [x \in {} |-> 0]

\* min_months the LLM left out (None)
NoMonths == -1

\* JobSkillProfile.ensure_at_least_one_hard_requirement: TRUE when the
\* validator returns the list, FALSE when it raises
ensure_at_least_one_hard_requirement(v) ==
    \E i \in DOMAIN v : v[i].requirement_level = "hard"

PostProcessRequirement(req) ==
    IF req.kind = "category"
    THEN IF req.min_required < 1 THEN [req EXCEPT !.min_required = 1] ELSE req
    ELSE LET s1 == IF req.min_months = NoMonths THEN [req EXCEPT !.min_months = 0]
                   ELSE req
             s2 == IF s1.skill_type_hint = "methodology"
                   THEN [s1 EXCEPT !.min_months = 0, !.expected_evidence = "implicit"]
                   ELSE s1
         IN  IF s2.skill_type_hint = "tool" /\ s2.requirement_level = "hard"
             THEN [s2 EXCEPT !.requirement_level = "soft",
                             !.expected_evidence = "project"]
             ELSE s2

post_process_jd_profile(jd) ==
    [jd EXCEPT !.requirements =
        [i \in DOMAIN jd.requirements |-> PostProcessRequirement(jd.requirements[i])]]

\* ranked_results.sort(key=score, reverse=True): a stable sort
RECURSIVE InsertByScore(_, _)
InsertByScore(sorted, e) ==
    IF sorted = <<>> THEN <<e>>
    ELSE IF Head(sorted).score >= e.score
         THEN <<Head(sorted)>> \o InsertByScore(Tail(sorted), e)
         ELSE <<e>> \o sorted

RECURSIVE SortByScore(_)
SortByScore(results) ==
    IF results = <<>> THEN <<>>
    ELSE InsertByScore(SortByScore(SubSeq(results, 1, Len(results) - 1)),
                       results[Len(results)])

\* ranked_results[:limit]
Take(results, n) == SubSeq(results, 1, IF n < Len(results) THEN n ELSE Len(results))

\* ------------------------------------------------------------------------
\* Inputs of a ranking request
\* ------------------------------------------------------------------------

MaxRequirements == 2

RequirementChoices ==
    { SkillRequirement(<<"J","a","v","a">>, "hard", "programming", 24),
      SkillRequirement(<<".","N","E","T">>, "hard", "framework", 24),
      SkillRequirement(<<"A","g","i","l","e">>, "hard", "methodology", 12),
      SkillRequirement(<<"S","p","r","i","n","g">>, "soft", "framework", 12),
      SkillRequirement(<<"J","a","v","a">>, "soft", "programming", NoMonths),
      SkillRequirement(<<"j","v","m">>, "hard", "other", 0),
      SkillRequirement(<<"D","o","c","k","e","r">>, "hard", "tool", 0),
      CategoryRequirement("Backend Framework", "hard", 2),
      CategoryRequirement("Backend Framework", "soft", 1) }

Seniorities == {"Junior", "Mid", "Senior", "Lead"}

Responses ==
    { [seniority_level |-> s, role_context |-> RoleContext, requirements |-> q] :
        s \in Seniorities,
        q \in UNION { [1..n -> RequirementChoices] : n \in 0..MaxRequirements } }

\* RoleSkillTypeWeights rows of one domain and seniority: none, or a table
WeightTables ==
    { Empty, ("programming" :> 150000) @@ ("framework" :> 50000), ("framework" :> 0) }

\* a committed CandidateSkills row with the given bands
StoreRow(junior, mid, senior, strength, last_used, method) ==
    [ExperienceMonths |-> junior + mid + senior,
     LastUsedDate |-> last_used,
     MatchConfidence |-> 1000,
     TotalMonths |-> junior + mid + senior,
     JuniorMonths |-> junior,
     MidMonths |-> mid,
     SeniorMonths |-> senior,
     FirstUsedDate |-> IF last_used = NoDate THEN NoDate ELSE 1,
     EvidenceSources |-> {},
     EvidenceScore |-> 0,
     NormalizationConfidence |-> 1000,
     NormalizationMethod |-> method,
     MaxEvidenceStrength |-> strength]

Strong    == StoreRow(0, 24, 24, 3, Today - 6, "exact")
MidOnly30 == StoreRow(0, 30, 0, 3, Today - 6, "exact")
MidOnly40 == StoreRow(0, 40, 0, 3, Today - 12, "alias")
Exactly24 == StoreRow(0, 24, 0, 3, Today - 6, "rule")
Longer    == StoreRow(0, 36, 24, 3, Today - 3, "exact")
Weak24    == StoreRow(0, 24, 0, 1, Today - 24, "vector")
StrongVec == StoreRow(0, 24, 24, 3, Today - 13, "vector")
Stale     == StoreRow(0, 24, 12, 3, Today - 40, "rule")
TitleOnly == StoreRow(0, 0, 0, 1, NoDate, "unknown")

\* the rows of one candidate, by MasterSkillID
CandidateRows ==
    { Empty,
      (1 :> Strong),
      (3 :> MidOnly30),
      (1 :> MidOnly40),
      (1 :> Exactly24),
      (1 :> Weak24) @@ (5 :> Strong),
      (1 :> Strong) @@ (3 :> TitleOnly),
      (3 :> MidOnly30) @@ (5 :> Stale),
      (2 :> Strong) @@ (3 :> StrongVec),
      (1 :> Strong) @@ (2 :> Strong) @@ (5 :> Strong) }

OtherCandidateRows ==
    { Empty, (1 :> Longer), (1 :> Strong) @@ (2 :> Strong),
      (2 :> Exactly24) @@ (5 :> Exactly24) }

StoreOf(rows1, rows2) ==
    [k \in ({1} \X DOMAIN rows1) \cup ({2} \X DOMAIN rows2) |->
        IF k[1] = 1 THEN rows1[k[2]] ELSE rows2[k[2]]]

Stores == { StoreOf(a, b) : a \in CandidateRows, b \in OtherCandidateRows }

Orders == {"asc", "desc"}

VARIABLES
    pc,                  \* position of the ingestion job
    confidence_sources,  \* SkillMetrics.confidence_sources, a class attribute
    skill_map,           \* the defaultdict of sync_profile_to_master
    roles_done,          \* roles processed so far
    ingestions,          \* syncs started so far
    candidate_id,        \* CandidateID of the sync in progress
    profile,             \* the roles of the resume processed by this sync
    Candidates,          \* committed rows: CandidateID -> the resume's roles
    CandidateSkills,     \* committed rows, keyed by <<CandidateID, MasterSkillID>>
    accepted,            \* methods the matcher returned, per skill, this sync
    observed,            \* accepted, as of commit, keyed like CandidateSkills
    rank_pc,             \* position of rank_candidates
    llm_response,        \* the profile the LLM returned for the JD
    limit,               \* the limit argument of rank_candidates
    skill_type_weights,  \* RoleSkillTypeWeights of the JD's domain and seniority
    jd_profile,          \* the validated, post-processed profile
    eligible_candidate_ids,
    ranked_results,
    Jobs,                \* the Jobs table: JobID -> [type, status, progress]
    workers,             \* JobID -> position of the executor's task for the job
    connections,         \* jobs whose connect_db() connection is not closed
    EmbeddingCache,      \* InputText -> number of rows of the table
    unique_input_text,   \* whether the table has a unique key on InputText
    callers,             \* thread -> position in get_embedding_cached
    calls,               \* calls of get_embedding_cached started so far
    text_pc,             \* position of the caller of the text functions
    skill_text,          \* the raw skill text handed to the text functions
    normalized_once,     \* normalize_skill_text2(skill_text)
    normalized_twice,    \* normalize_skill_text2 of normalized_once
    cleaned,             \* split_composite_skill(skill_text)
    arguments,           \* the arguments of a call of the matcher functions
    returned             \* what that call returned

ingestVars ==
    <<pc, confidence_sources, skill_map, roles_done, ingestions, candidate_id,
      profile, accepted, observed>>

rankVars ==
    <<rank_pc, llm_response, limit, skill_type_weights, jd_profile,
      eligible_candidate_ids, ranked_results>>

jobVars == <<Jobs, workers, connections>>

cacheVars == <<EmbeddingCache, unique_input_text, callers, calls>>

textVars ==
    <<text_pc, skill_text, normalized_once, normalized_twice, cleaned, arguments,
      returned>>

serverVars == <<jobVars, cacheVars, textVars>>

vars == <<ingestVars, Candidates, CandidateSkills, rankVars, serverVars>>

\* def rank_candidates(self, jd_text, limit=50)
DefaultLimit == 50

\* the limits a request of the model may carry
Limits == {1, DefaultLimit}

NoProfile == [seniority_level |-> "Junior", role_context |-> <<>>, requirements |-> <<>>]

IngestIdle ==
    /\ pc = "idle"
    /\ confidence_sources = <<>>
    /\ skill_map = Empty
    /\ roles_done = 0
    /\ ingestions = 0
    /\ candidate_id = 0
    /\ profile = <<>>
    /\ accepted = Empty
    /\ observed = Empty

RankIdle ==
    /\ rank_pc = "idle"
    /\ llm_response = NoProfile
    /\ limit = DefaultLimit
    /\ skill_type_weights = Empty
    /\ jd_profile = NoProfile
    /\ eligible_candidate_ids = {}
    /\ ranked_results = <<>>

\* no text function called
TextIdle ==
    /\ text_pc = "idle"
    /\ skill_text = <<>>
    /\ normalized_once = <<>>
    /\ normalized_twice = <<>>
    /\ cleaned = <<>>
    /\ arguments = <<>>
    /\ returned = <<>>

\* no job created, no connection open
JobsIdle ==
    /\ Jobs = Empty
    /\ workers = Empty
    /\ connections = {}

\* ThreadPoolExecutor(max_workers=2)
max_workers == 2

\* the threads of the executor's pool
Threads == 1..max_workers

\* texts get_embedding_cached is called with
CacheTexts == {"java", "spring"}

\* an empty EmbeddingCache nobody is reading
CacheIdle ==
    /\ EmbeddingCache = [text \in CacheTexts |-> 0]
    /\ callers = [w \in Threads |-> [pc |-> "idle", text |-> ""]]
    /\ calls = 0

Init ==
    /\ RankIdle
    /\ JobsIdle
    /\ CacheIdle
    /\ TextIdle
    /\ unique_input_text = FALSE
    /\ pc = "idle"
    /\ confidence_sources = <<>>
    /\ skill_map = Empty
    /\ roles_done = 0
    /\ ingestions = 0
    /\ candidate_id = 0
    /\ profile = <<>>
    /\ Candidates = Empty
    /\ CandidateSkills = Empty
    /\ accepted = Empty
    /\ observed = Empty

\* sync_profile_to_master, up to the role loop: INSERT INTO Candidates and a
\* fresh skill_map
BeginSync ==
    /\ pc = "idle"
    /\ ingestions < MaxIngestions
    /\ pc' = "roles"
    /\ ingestions' = ingestions + 1
    /\ candidate_id' = ingestions + 1
    /\ skill_map' = Empty
    /\ profile' = <<>>
    /\ accepted' = Empty
    /\ UNCHANGED <<confidence_sources, roles_done, Candidates, CandidateSkills,
                   observed, rankVars, serverVars>>

\* one role: build_professional_profile, then one iteration of the role
\* loop of sync_profile_to_master with its call of process_extracted_skills;
\* an exception ends the job and the transaction is rolled back
ProcessRole ==
    /\ pc = "roles"
    /\ roles_done < MaxRoles
    /\ \E job_title \in Titles, dates \in DatePairs, extracted_skills \in SkillLists :
          LET start_date_raw == dates[1]
              end_date_raw   == dates[2]
              duration   == calculate_duration(start_date_raw, end_date_raw,
                                               DEFAULT_REF_DATE)
              end_dt     == IF end_date_raw = Present THEN RunDate ELSE end_date_raw
              role_title == RoleTitleOf(job_title)
              credited   == RoleTitleCredit(skill_map, role_title, 1)
              st == MentionLoop([map |-> credited, sources |-> confidence_sources,
                                 raised |-> FALSE, accepted |-> accepted],
                                RoleMentionsOf(extracted_skills),
                                RoleLevelOf(job_title),
                                duration, start_date_raw, end_dt)
          IN  /\ confidence_sources' = st.sources
              /\ IF st.raised
                 THEN /\ pc' = "idle"
                      /\ skill_map' = Empty
                      /\ profile' = <<>>
                      /\ accepted' = Empty
                 ELSE /\ pc' = "roles"
                      /\ skill_map' = st.map
                      /\ profile' = Append(profile,
                                        [title |-> job_title,
                                         start_date_raw |-> start_date_raw,
                                         end_date_raw |-> end_date_raw,
                                         extracted_skills |-> extracted_skills])
                      /\ accepted' = st.accepted
    /\ roles_done' = roles_done + 1
    /\ UNCHANGED <<ingestions, candidate_id, Candidates, CandidateSkills,
                   observed, rankVars, serverVars>>

\* the totals loop, store_candidate_skill for every accumulator whose code
\* is a master skill, and conn.commit()
FinishSync ==
    /\ pc = "roles"
    /\ LET final == [c \in DOMAIN skill_map |->
                        LET a == [skill_map[c] EXCEPT !.total_months = TotalMonths(skill_map[c])]
                        IN  [a EXCEPT !.match_confidence = MatchConfidence(a)]]
           stored == {c \in DOMAIN final : MasterIdOf(c) # NoId}
           keys   == {<<candidate_id, MasterIdOf(c)>> : c \in stored}
           CodeOf(k) == CHOOSE c \in stored : MasterIdOf(c) = k[2]
       IN  /\ CandidateSkills' =
                [k \in keys |-> SkillRow(final[CodeOf(k)], confidence_sources)]
                @@ CandidateSkills
           /\ observed' =
                [k \in keys |-> IF CodeOf(k) \in DOMAIN accepted
                                THEN accepted[CodeOf(k)] ELSE {}]
                @@ observed
    /\ Candidates' = (candidate_id :> profile) @@ Candidates
    /\ pc' = "idle"
    /\ skill_map' = Empty
    /\ profile' = <<>>
    /\ accepted' = Empty
    /\ UNCHANGED <<confidence_sources, roles_done, ingestions, candidate_id, rankVars, serverVars>>

Next == BeginSync \/ ProcessRole \/ FinishSync

Spec == Init /\ [][Next]_vars

\* ------------------------------------------------------------------------
\* rank_candidates over a committed store
\* ------------------------------------------------------------------------

InitRank ==
    /\ IngestIdle
    /\ JobsIdle
    /\ CacheIdle
    /\ TextIdle
    /\ unique_input_text = FALSE
    /\ CandidateSkills \in Stores
    /\ Candidates = [c \in CandidateIds(CandidateSkills) |-> <<>>]
    /\ rank_pc = "response"
    /\ llm_response \in Responses
    /\ limit \in Limits
    /\ skill_type_weights \in WeightTables
    /\ jd_profile = NoProfile
    /\ eligible_candidate_ids = {}
    /\ ranked_results = <<>>

\* parse_jd_with_inference from the LLM's answer on: model_validate, then
\* post_process_jd_profile
ParseJd ==
    /\ rank_pc = "response"
    /\ IF ensure_at_least_one_hard_requirement(llm_response.requirements)
       THEN /\ jd_profile' = post_process_jd_profile(llm_response)
            /\ rank_pc' = "parsed"
       ELSE /\ jd_profile' = jd_profile
            /\ rank_pc' = "failed"
    /\ UNCHANGED <<serverVars, ingestVars, Candidates, CandidateSkills, llm_response, limit, skill_type_weights,
                   eligible_candidate_ids, ranked_results>>

\* the eligibility gate and the early return of rank_candidates, r being
\* what get_eligible_candidates returned or raised
ReturnEligible(r) ==
    /\ eligible_candidate_ids' = r.ids
    /\ rank_pc' = IF r.raised THEN "failed"
                  ELSE IF r.ids = {} THEN "done" ELSE "eligible"

GetEligible ==
    /\ rank_pc = "parsed"
    /\ ReturnEligible(get_eligible_candidates(CandidateSkills, jd_profile))
    /\ UNCHANGED <<serverVars, ingestVars, Candidates, CandidateSkills, llm_response, limit, skill_type_weights,
                   jd_profile, ranked_results>>

\* the sort and the return of rank_candidates, scored being the answers of
\* _score_candidate for the ids in the order they were scored; an exception
\* of _score_candidate ends the request
ReturnRanked(scored, ids) ==
    IF \E c \in DOMAIN scored : scored[c].raised
    THEN /\ rank_pc' = "failed"
         /\ ranked_results' = ranked_results
    ELSE /\ rank_pc' = "done"
         /\ ranked_results' =
                Take(SortByScore([i \in DOMAIN ids |->
                        [candidate_id |-> ids[i],
                         score |-> scored[ids[i]].score,
                         breakdown |-> scored[ids[i]].breakdown,
                         unmatched_skills |-> <<>>,
                         total_jd_skills |-> Len(jd_profile.requirements),
                         matched_skill_count |-> Len(scored[ids[i]].breakdown),
                         unmatched_skill_count |-> 0]]),
                     limit)

\* the scoring loop and the sort; the rows of a candidate come back in
\* either order
ScoreCandidates ==
    /\ rank_pc = "eligible"
    /\ \E order \in Orders :
          ReturnRanked(
              [c \in eligible_candidate_ids |->
                  _score_candidate(CandidateSkills, c, jd_profile, skill_type_weights,
                      order,
                      calculate_max_possible_score(jd_profile, skill_type_weights))],
              SetToSeq(eligible_candidate_ids))
    /\ UNCHANGED <<serverVars, ingestVars, Candidates, CandidateSkills, llm_response, limit, skill_type_weights,
                   jd_profile, eligible_candidate_ids>>

NextRank == ParseJd \/ GetEligible \/ ScoreCandidates

SpecRank == InitRank /\ [][NextRank]_vars

\* ------------------------------------------------------------------------
\* Properties of ingestion
\* ------------------------------------------------------------------------

StrongestOf(methods) ==
    CHOOSE m \in methods : \A n \in methods : Priority(n) <= Priority(m)

\* C1: the NormalizationMethod stored for a skill of a candidate is the
\* highest-priority method (exact > alias > rule > vector) among the methods
\* the matcher returned for the accepted mentions of that skill of that
\* candidate, whatever else the process has handled.
C1_StoredMethodIsStrongestOfItsMentions ==
    \A k \in DOMAIN CandidateSkills \cap DOMAIN observed :
        observed[k] # {} =>
            CandidateSkills[k].NormalizationMethod = StrongestOf(observed[k])

\* C2: every stored row has TotalMonths = JuniorMonths + MidMonths + SeniorMonths.
C2_TotalIsSumOfBands ==
    \A k \in DOMAIN CandidateSkills :
        CandidateSkills[k].TotalMonths =
            CandidateSkills[k].JuniorMonths + CandidateSkills[k].MidMonths
                + CandidateSkills[k].SeniorMonths

\* a row committed by a sync that credited the junior and the senior band
C2_Witness ==
    /\ pc = "idle"
    /\ ingestions > 0
    /\ \E k \in DOMAIN CandidateSkills :
          /\ CandidateSkills[k].JuniorMonths > 0
          /\ CandidateSkills[k].SeniorMonths > 0

\* C3: every stored row that has both dates has FirstUsedDate <= LastUsedDate.
C3_FirstUsedNotAfterLastUsed ==
    \A k \in DOMAIN CandidateSkills :
        (CandidateSkills[k].FirstUsedDate # NoDate
            /\ CandidateSkills[k].LastUsedDate # NoDate)
        => CandidateSkills[k].FirstUsedDate <= CandidateSkills[k].LastUsedDate

\* ------------------------------------------------------------------------
\* Properties of the eligibility gate
\* ------------------------------------------------------------------------

\* get_eligible_candidates has returned a set for jd_profile
Gated == rank_pc \in {"eligible", "done"}

Returned(ids) == [raised |-> FALSE, ids |-> ids]

WithoutSoft(jd) ==
    [jd EXCEPT !.requirements = SelectSeq(@, LAMBDA r : r.requirement_level = "hard")]

AllHard(jd) ==
    [jd EXCEPT !.requirements =
        [i \in DOMAIN @ |-> [@[i] EXCEPT !.requirement_level = "hard"]]]

\* C4: the gate returns the same set for the profile and for the profile
\* with every soft requirement removed.
C4_SoftRequirementsNeverFilter ==
    Gated =>
        get_eligible_candidates(CandidateSkills, WithoutSoft(jd_profile))
            = Returned(eligible_candidate_ids)

\* a gated profile with a soft requirement that would have excluded an
\* eligible candidate had it been hard
C4_Witness ==
    /\ Gated
    /\ eligible_candidate_ids # {}
    /\ \E i \in DOMAIN jd_profile.requirements :
          jd_profile.requirements[i].requirement_level = "soft"
    /\ get_eligible_candidates(CandidateSkills, AllHard(jd_profile))
          # Returned(eligible_candidate_ids)

\* a SkillRequirement for which the matcher returns no skill
Unresolvable(req) ==
    /\ req.kind = "skill"
    /\ JdMatchOf(req.raw_skill).method # "raise"
    /\ JdMatchOf(req.raw_skill).SkillID = NoId

WithoutUnresolvableHard(jd) ==
    [jd EXCEPT !.requirements =
        SelectSeq(@, LAMBDA r : ~ (r.requirement_level = "hard" /\ Unresolvable(r)))]

\* C5: the gate returns for a profile the set it returns for the profile
\* with its unresolvable hard skill requirements removed, also when every
\* hard requirement is unresolvable.
C5_UnresolvableRequirementExcludesNobody ==
    Gated =>
        get_eligible_candidates(CandidateSkills, WithoutUnresolvableHard(jd_profile))
            = Returned(eligible_candidate_ids)

\* a gated profile with an unresolvable hard requirement and a candidate
\* that stayed eligible
C5_Witness ==
    /\ Gated
    /\ eligible_candidate_ids # {}
    /\ \E i \in DOMAIN jd_profile.requirements :
          /\ jd_profile.requirements[i].requirement_level = "hard"
          /\ Unresolvable(jd_profile.requirements[i])

\* C6: with the implication framework_aspnet -> framework_dotnet and a
\* profile that hard-requires .NET for 24 months, a candidate whose only row
\* is framework_aspnet with 30 recent mid months is eligible, and is scored
\* as matched on that requirement.
C6_ImpliedSkillSatisfiesRequirement ==
    ( /\ Gated
      /\ jd_profile.seniority_level \in {"Junior", "Mid"}
      /\ jd_profile.requirements =
            << SkillRequirement(<<".","N","E","T">>, "hard", "framework", 24) >>
      /\ RowsOf(CandidateSkills, 1) = {3}
      /\ CandidateSkills[<<1, 3>>] = MidOnly30 )
    => /\ 1 \in eligible_candidate_ids
       /\ rank_pc = "done" =>
             \E i \in DOMAIN ranked_results :
                 /\ ranked_results[i].candidate_id = 1
                 /\ ranked_results[i].breakdown[1].matched

\* the hard requirements the gate evaluates: every CategoryRequirement and
\* every SkillRequirement the matcher resolves
EvaluatedHard ==
    {i \in DOMAIN jd_profile.requirements :
        /\ jd_profile.requirements[i].requirement_level = "hard"
        /\ \/ jd_profile.requirements[i].kind = "category"
           \/ JdMatchOf(jd_profile.requirements[i].raw_skill).SkillID # NoId}

\* the row conditions of a hard requirement, min standing for min_months
RowPasses(row, min) ==
    /\ row.TotalMonths >= min \/ row.MaxEvidenceStrength >= 2
    /\ row.MidMonths >= SENIORITY_THRESHOLDS[jd_profile.seniority_level].min_mid_months
    /\ row.SeniorMonths >= SENIORITY_THRESHOLDS[jd_profile.seniority_level].min_senior_months
    /\ row.LastUsedDate # NoDate
    /\ row.LastUsedDate >= Today - RECENCY_MONTHS_LIMIT

\* the candidates with a passing row for the requirement: a row of the
\* skill, its taxonomy subtree or its implied skills for a SkillRequirement,
\* min_required passing rows of the category (over zero months) for a
\* CategoryRequirement
CandidatesPassing(req) ==
    IF req.kind = "skill"
    THEN {c \in CandidateIds(CandidateSkills) :
            \E k \in RowsOf(CandidateSkills, c) :
                /\ k \in _resolve_skill_tree(JdMatchOf(req.raw_skill).SkillCode)
                        \cup _resolve_implied_skills(JdMatchOf(req.raw_skill).SkillCode)
                /\ RowPasses(CandidateSkills[<<c, k>>], req.min_months)}
    ELSE {c \in CandidateIds(CandidateSkills) :
            Cardinality({k \in RowsOf(CandidateSkills, c) :
                            /\ MasterRow(k).Category = req.category
                            /\ RowPasses(CandidateSkills[<<c, k>>], 1)})
                >= req.min_required}

Hundred == 1000000

RowsFor(c, req) ==
    IF req.kind = "skill"
    THEN {k \in RowsOf(CandidateSkills, c) :
            MasterRow(k).SkillCode = JdMatchOf(req.raw_skill).SkillCode}
    ELSE {k \in RowsOf(CandidateSkills, c) : MasterRow(k).Category = req.category}

\* candidate c matches every requirement with rows of strength 3, used
\* within 12 months, by a non-vector method, with months that satisfy Enough
MatchesAll(c, Enough(_, _)) ==
    \A i \in DOMAIN jd_profile.requirements :
        LET req == jd_profile.requirements[i]
        IN  /\ RowsFor(c, req) # {}
            /\ \A k \in RowsFor(c, req) :
                  LET row == CandidateSkills[<<c, k>>]
                  IN  /\ row.MaxEvidenceStrength = 3
                      /\ row.LastUsedDate # NoDate
                      /\ Today - row.LastUsedDate <= 12
                      /\ row.NormalizationMethod # "vector"
                      /\ Enough(row, req)

AtLeastMinMonths(row, req) == row.TotalMonths >= req.min_months

\* ln(1 + TotalMonths / max(min_months, 1)) >= 1, min_months being 1 for a
\* CategoryRequirement: TotalMonths >= (e - 1) * max(min_months, 1)
FullExperience(row, req) ==
    LET m == IF req.kind = "skill" /\ req.min_months > 1 THEN req.min_months ELSE 1
    IN  (row.TotalMonths + m) * 100000 >= 271828 * m

C10_ParsedProfileKeepsHardRequirement ==
    jd_profile # NoProfile =>
        \E i \in DOMAIN jd_profile.requirements :
            jd_profile.requirements[i].requirement_level = "hard"

\* ------------------------------------------------------------------------
\* C11: post_process_jd_profile keeps the requirements as they were given
\* ------------------------------------------------------------------------

\* the identity of a requirement: its kind, what it names and its level
Intent(req) ==
    [kind |-> req.kind, raw_skill |-> req.raw_skill, category |-> req.category,
     requirement_level |-> req.requirement_level]

\* C11: the profile post_process_jd_profile returns has as many requirements
\* as the profile it was given, in the same order, and each keeps its kind,
\* its raw_skill or category and its requirement_level.
C11_PostProcessKeepsRequirements ==
    jd_profile # NoProfile =>
        /\ Len(jd_profile.requirements) = Len(llm_response.requirements)
        /\ \A i \in DOMAIN jd_profile.requirements :
              Intent(jd_profile.requirements[i]) = Intent(llm_response.requirements[i])

\* ------------------------------------------------------------------------
\* C12: re-ingesting a resume
\* ------------------------------------------------------------------------

\* C12: the CandidateSkills rows of one resume belong to one candidate: two
\* rows whose candidates were ingested from the same resume have the same
\* CandidateID, so a second ingestion overwrote the rows of the first.
C12_ReingestionOverwritesRows ==
    \A k1 \in DOMAIN CandidateSkills, k2 \in DOMAIN CandidateSkills :
        Candidates[k1[1]] = Candidates[k2[1]] => k1[1] = k2[1]

\* ------------------------------------------------------------------------
\* C13: a fault while scoring one candidate
\* ------------------------------------------------------------------------

\* C13: rank_candidates does not fail once the gate has returned eligible
\* candidates: a candidate whose scoring faults is dropped and the request
\* still returns.
C13_ScoringFaultDoesNotFailRanking ==
    ~ (rank_pc = "failed" /\ eligible_candidate_ids # {})

\* ------------------------------------------------------------------------
\* WebServer/main.py, WebServer/database.py, WebServer/job_executor.py:
\* jobs, their status and their connections
\* ------------------------------------------------------------------------

\* jobs created by the model
MaxJobs == 2

JobTypes == {"candidate", "employer"}

\* the update_callback calls of _process_candidate_resume in order, each with
\* the work that follows it up to the next call
CandidateSteps ==
    << [status |-> "queued",     progress |-> 10,  work |-> "client"],
       [status |-> "processing", progress |-> 20,  work |-> "parse"],
       [status |-> "processing", progress |-> 40,  work |-> "identity"],
       [status |-> "processing", progress |-> 60,  work |-> "experience"],
       [status |-> "processing", progress |-> 80,  work |-> "profile"],
       [status |-> "processing", progress |-> 90,  work |-> "sync"],
       [status |-> "completed",  progress |-> 100, work |-> "return"] >>

\* the update_callback calls of _process_employer_matching
EmployerSteps ==
    << [status |-> "processing", progress |-> 10,  work |-> "connect"],
       [status |-> "processing", progress |-> 20,  work |-> "engine"],
       [status |-> "processing", progress |-> 40,  work |-> "rank"],
       [status |-> "processing", progress |-> 80,  work |-> "format"],
       [status |-> "completed",  progress |-> 100, work |-> "return"] >>

StepsOf(type) == IF type = "candidate" THEN CandidateSteps ELSE EmployerSteps

\* the step the task of job j is at
StepOf(j) == StepsOf(Jobs[j].type)[workers[j].step]

\* an UPDATE that sets Status and leaves Progress as it was
update_job_status_keeping_progress(jobs, job_id, status, progress) ==
    [jobs EXCEPT ![job_id].status = status]

\* UPDATE Jobs SET Status = ?, Progress = ? WHERE JobID = ? and commit
update_job_status(jobs, job_id, status, progress) ==
    [jobs EXCEPT ![job_id].status = status, ![job_id].progress = progress]

\* the connection of job j after the work of a step has run to its end:
\* "sync" opens and closes one, "connect" opens one, "format" ends with
\* conn.close()
AfterWork(conns, j, work) ==
    IF work = "connect" THEN conns \cup {j}
    ELSE IF work = "format" THEN conns \ {j}
    ELSE conns

\* the connection of job j after the work of a step has raised: in "sync"
\* connect_db() itself raised (opened FALSE) or sync_profile_to_master did,
\* before conn.close(); the other steps open nothing and close nothing
AfterRaise(conns, j, work, opened) ==
    IF work = "sync" /\ opened THEN conns \cup {j} ELSE conns

Running == {j \in DOMAIN workers : workers[j].pc \in {"running", "except"}}

\* create_job and executor.submit: a row with status queued, progress 0, and
\* a task waiting for a thread
CreateJob ==
    /\ Cardinality(DOMAIN Jobs) < MaxJobs
    /\ \E type \in JobTypes :
          LET job_id == Cardinality(DOMAIN Jobs) + 1
          IN  /\ Jobs' = (job_id :> [type |-> type, status |-> "queued", progress |-> 0])
                            @@ Jobs
              /\ workers' = (job_id :> [pc |-> "submitted", step |-> 1]) @@ workers
    /\ UNCHANGED <<connections, cacheVars, textVars, ingestVars, Candidates, CandidateSkills,
                   rankVars>>

\* a free thread of the pool takes the task
StartJob ==
    /\ Cardinality(Running) < max_workers
    /\ \E j \in DOMAIN workers :
          /\ workers[j].pc = "submitted"
          /\ workers' = [workers EXCEPT ![j].pc = "running"]
    /\ UNCHANGED <<Jobs, connections, cacheVars, textVars, ingestVars, Candidates,
                   CandidateSkills, rankVars>>

\* update_callback writes the step's status and the work after it runs to
\* its end; the last step returns
Advance ==
    \E j \in DOMAIN workers :
        /\ workers[j].pc = "running"
        /\ Jobs' = update_job_status(Jobs, j, StepOf(j).status, StepOf(j).progress)
        /\ connections' = AfterWork(connections, j, StepOf(j).work)
        /\ workers' = IF StepOf(j).work = "return"
                      THEN [workers EXCEPT ![j].pc = "returned"]
                      ELSE [workers EXCEPT ![j].step = @ + 1]
        /\ UNCHANGED <<cacheVars, textVars, ingestVars, Candidates, CandidateSkills, rankVars>>

\* update_callback raises (connect_db or the UPDATE fails): nothing is
\* written and the except clause is entered
UpdateRaises ==
    \E j \in DOMAIN workers :
        /\ workers[j].pc = "running"
        /\ workers' = [workers EXCEPT ![j].pc = "except"]
        /\ UNCHANGED <<Jobs, connections, cacheVars, textVars, ingestVars, Candidates,
                       CandidateSkills, rankVars>>

\* update_callback writes the step's status and the work after it raises
WorkRaises ==
    \E j \in DOMAIN workers, opened \in BOOLEAN :
        /\ workers[j].pc = "running"
        /\ StepOf(j).work # "return"
        /\ Jobs' = update_job_status(Jobs, j, StepOf(j).status, StepOf(j).progress)
        /\ connections' = AfterRaise(connections, j, StepOf(j).work, opened)
        /\ workers' = [workers EXCEPT ![j].pc = "except"]
        /\ UNCHANGED <<cacheVars, textVars, ingestVars, Candidates, CandidateSkills, rankVars>>

\* the except clause: update_callback(job_id, 'failed', 0, ...) and return
MarkFailed ==
    \E j \in DOMAIN workers :
        /\ workers[j].pc = "except"
        /\ Jobs' = update_job_status(Jobs, j, "failed", 0)
        /\ workers' = [workers EXCEPT ![j].pc = "returned"]
        /\ UNCHANGED <<connections, cacheVars, textVars, ingestVars, Candidates,
                       CandidateSkills, rankVars>>

\* the except clause: update_callback raises, and the exception leaves the
\* task into its Future
HandlerRaises ==
    \E j \in DOMAIN workers :
        /\ workers[j].pc = "except"
        /\ workers' = [workers EXCEPT ![j].pc = "raised"]
        /\ UNCHANGED <<Jobs, connections, cacheVars, textVars, ingestVars, Candidates,
                       CandidateSkills, rankVars>>

InitJobs ==
    /\ IngestIdle
    /\ Candidates = Empty
    /\ CandidateSkills = Empty
    /\ RankIdle
    /\ CacheIdle
    /\ TextIdle
    /\ unique_input_text = FALSE
    /\ JobsIdle

NextJobs ==
    CreateJob \/ StartJob \/ Advance \/ UpdateRaises \/ WorkRaises \/ MarkFailed
        \/ HandlerRaises

SpecJobs == InitJobs /\ [][NextJobs]_vars

\* the task of job j has left _process_candidate_resume or
\* _process_employer_matching
Exited(j) == workers[j].pc \in {"returned", "raised"}

\* C14: the connection a job opened is closed once the job's task has exited,
\* whether it returned after completing, after marking the job failed, or
\* raised.
C14_ConnectionsClosedOnEveryExit ==
    \A j \in DOMAIN workers : Exited(j) => j \notin connections

\* ------------------------------------------------------------------------
\* get_embedding_cached (Employer/MatchingEngine.py, Candidate/vectorizer.py)
\* called from the threads of the pool, each on its own connection
\* ------------------------------------------------------------------------

\* calls started by the model
MaxCalls == 3

\* a thread enters get_embedding_cached(text)
Call ==
    /\ calls < MaxCalls
    /\ \E w \in Threads, text \in CacheTexts :
          /\ callers[w].pc \in {"idle", "raised"}
          /\ callers' = [callers EXCEPT ![w] = [pc |-> "select", text |-> text]]
    /\ calls' = calls + 1
    /\ UNCHANGED <<EmbeddingCache, unique_input_text, jobVars, textVars, ingestVars,
                   Candidates, CandidateSkills, rankVars>>

\* SELECT ... FROM EmbeddingCache WHERE InputText = ? and fetchone()
Select ==
    \E w \in Threads :
        /\ callers[w].pc = "select"
        /\ callers' = [callers EXCEPT
                         ![w].pc = IF EmbeddingCache[callers[w].text] > 0
                                   THEN "hit" ELSE "miss"]
        /\ UNCHANGED <<EmbeddingCache, unique_input_text, calls, jobVars, textVars, ingestVars,
                       Candidates, CandidateSkills, rankVars>>

\* if cached_row: UPDATE the access statistics, commit, return the row
ReturnCached ==
    \E w \in Threads :
        /\ callers[w].pc = "hit"
        /\ callers' = [callers EXCEPT ![w].pc = "idle"]
        /\ UNCHANGED <<EmbeddingCache, unique_input_text, calls, jobVars, textVars, ingestVars,
                       Candidates, CandidateSkills, rankVars>>

\* the INSERT meets a row with the same InputText under a unique key
Duplicate(w) == unique_input_text /\ EmbeddingCache[callers[w].text] > 0

\* get_embedding(text), INSERT INTO EmbeddingCache, commit, return
InsertRow ==
    \E w \in Threads :
        /\ callers[w].pc = "miss"
        /\ ~ Duplicate(w)
        /\ EmbeddingCache' = [EmbeddingCache EXCEPT ![callers[w].text] = @ + 1]
        /\ callers' = [callers EXCEPT ![w].pc = "idle"]
        /\ UNCHANGED <<unique_input_text, calls, jobVars, textVars, ingestVars,
                       Candidates, CandidateSkills, rankVars>>

\* get_embedding(text), then the INSERT raises pyodbc.IntegrityError
InsertRaises ==
    \E w \in Threads :
        /\ callers[w].pc = "miss"
        /\ Duplicate(w)
        /\ callers' = [callers EXCEPT ![w].pc = "raised"]
        /\ UNCHANGED <<EmbeddingCache, unique_input_text, calls, jobVars, textVars, ingestVars,
                       Candidates, CandidateSkills, rankVars>>

\* the table's definition is not part of the sources: InputText has a unique
\* key or it has none
InitCache ==
    /\ IngestIdle
    /\ Candidates = Empty
    /\ CandidateSkills = Empty
    /\ RankIdle
    /\ JobsIdle
    /\ CacheIdle
    /\ TextIdle
    /\ unique_input_text \in BOOLEAN

NextCache == Call \/ Select \/ ReturnCached \/ InsertRow \/ InsertRaises

SpecCache == InitCache /\ [][NextCache]_vars

\* C15: whatever the interleaving of the lookups and inserts of the threads,
\* the cache holds at most one entry for a text and no call has failed.
C15_ConcurrentMissesInsertOnce ==
    /\ \A text \in CacheTexts : EmbeddingCache[text] <= 1
    /\ \A w \in Threads : callers[w].pc # "raised"

\* ------------------------------------------------------------------------
\* C16: the life of a job
\* ------------------------------------------------------------------------

JobStatus == {"queued", "processing", "completed", "failed"}

Terminal(status) == status \in {"completed", "failed"}

\* C16: the status of a job is one of the four with progress within 0..100,
\* and a job whose task has exited, by returning or by raising, is completed
\* or failed.
C16_ExitedJobIsCompletedOrFailed ==
    \A j \in DOMAIN Jobs :
        /\ Jobs[j].status \in JobStatus
        /\ Jobs[j].progress \in 0..100
        /\ Exited(j) => Terminal(Jobs[j].status)

\* ------------------------------------------------------------------------
\* C17: order and size of the ranked list
\* ------------------------------------------------------------------------

RECURSIVE SumTotalMonths(_, _)
SumTotalMonths(store, keys) ==
    IF keys = {} THEN 0
    ELSE LET k == CHOOSE x \in keys : TRUE
         IN store[k].TotalMonths + SumTotalMonths(store, keys \ {k})

\* the months of experience a candidate has on record
total_months(c) ==
    SumTotalMonths(CandidateSkills, {k \in DOMAIN CandidateSkills : k[1] = c})

\* the latest date a candidate used any skill on record
last_used(c) ==
    LET dates == {CandidateSkills[k].LastUsedDate :
                     k \in {x \in DOMAIN CandidateSkills : x[1] = c}}
    IN IF dates = {} THEN NoDate ELSE CHOOSE d \in dates : \A e \in dates : e <= d

\* a before b when ties break on total_months, then last_used, descending
TieOrdered(a, b) ==
    \/ total_months(a) > total_months(b)
    \/ total_months(a) = total_months(b) /\ last_used(a) >= last_used(b)

\* C17: a finished ranking holds at most limit results in non-increasing
\* score order, and results of equal score are ordered by total_months and
\* then last_used, both descending
C17_RankedByScoreThenMonths ==
    rank_pc = "done" =>
        /\ Len(ranked_results) <= limit
        /\ \A i \in 1..(Len(ranked_results) - 1) :
              /\ ranked_results[i].score >= ranked_results[i + 1].score
              /\ ranked_results[i].score = ranked_results[i + 1].score =>
                    TieOrdered(ranked_results[i].candidate_id,
                               ranked_results[i + 1].candidate_id)

\* ------------------------------------------------------------------------
\* The text functions of Shared/normalizer.py applied to raw skill texts
\* ------------------------------------------------------------------------

MaxWords == 2

\* words of a raw skill mention; the empty word lets a mention begin or end
\* with a joiner
Words ==
    { <<>>, <<"C">>, <<"S","h","a","r","p">>, <<"H","T","M","L">>, <<"C","S","S">>,
      <<"5">>, <<"p","r","o","g","r","a","m","m","i","n","g">> }

\* what stands between two words of a mention
Joiners ==
    { <<" ">>, <<"-">>, <<" ","-"," ">>, <<".">>, <<"/">>, <<"\\">>, <<",">>,
      <<" ","&"," ">>, <<" ","a","n","d"," ">>, <<"+">> }

\* mentions of n words
RECURSIVE SkillTexts(_)
SkillTexts(n) ==
    IF n = 1 THEN Words
    ELSE {m \o j \o w : m \in SkillTexts(n - 1), j \in Joiners, w \in Words}

InitText ==
    /\ IngestIdle
    /\ Candidates = Empty
    /\ CandidateSkills = Empty
    /\ RankIdle
    /\ JobsIdle
    /\ CacheIdle
    /\ unique_input_text = FALSE
    /\ \/ /\ text_pc = "input"
          /\ skill_text \in UNION {SkillTexts(n) : n \in 1..MaxWords}
       \/ /\ text_pc = "call"
          /\ skill_text = <<>>
    /\ normalized_once = <<>>
    /\ normalized_twice = <<>>
    /\ cleaned = <<>>
    /\ arguments = <<>>
    /\ returned = <<>>

NormalizeSkillText ==
    /\ text_pc = "input"
    /\ text_pc' = "normalized"
    /\ normalized_once' = normalize_skill_text2(skill_text)
    /\ UNCHANGED <<skill_text, normalized_twice, cleaned, arguments, returned, jobVars, cacheVars,
                   ingestVars, Candidates, CandidateSkills, rankVars>>

\* the function applied to its own result
NormalizeAgain ==
    /\ text_pc = "normalized"
    /\ text_pc' = "renormalized"
    /\ normalized_twice' = normalize_skill_text2(normalized_once)
    /\ UNCHANGED <<skill_text, normalized_once, cleaned, arguments, returned, jobVars, cacheVars,
                   ingestVars, Candidates, CandidateSkills, rankVars>>

SplitSkillText ==
    /\ text_pc = "input"
    /\ text_pc' = "split"
    /\ cleaned' = split_composite_skill(skill_text)
    /\ UNCHANGED <<skill_text, normalized_once, normalized_twice, arguments, returned, jobVars, cacheVars,
                   ingestVars, Candidates, CandidateSkills, rankVars>>

\* a master table on which one raw name hits different rows in different
\* tiers
TierTable ==
    << [SkillID |-> 1, SkillName |-> <<"J","a","v","a","S","c","r","i","p","t">>,
        SkillCode |-> "language_javascript",
        Tokens |-> JsonList(<< <<"r","e","a","c","t">> >>), ParentSkillId |-> NoId,
        Aliases |-> JsonList(<< <<"N","o","d","e">> >>),
        DisambiguationRules |-> NoRules,
        SkillType |-> "programming", Category |-> "Language"],
       [SkillID |-> 2, SkillName |-> <<"N","o","d","e">>, SkillCode |-> "runtime_node",
        Tokens |-> JsonList(<< <<"j","v","m">> >>), ParentSkillId |-> NoId,
        Aliases |-> JsonList(<< <<"R","e","a","c","t"," ","J","S">> >>),
        DisambiguationRules |-> NoRules,
        SkillType |-> "framework", Category |-> "Backend Framework"],
       [SkillID |-> 3, SkillName |-> <<"J","a","v","a">>, SkillCode |-> "language_java",
        Tokens |-> JsonNull, ParentSkillId |-> NoId,
        Aliases |-> JsonNull,
        DisambiguationRules |->
            [kind |-> "object", block_if_contains |-> << <<"j","a","v","a","s","c","r","i","p","t">> >>,
             allow_if_contains |-> <<>>],
        SkillType |-> "programming", Category |-> "Language"],
       [SkillID |-> 4, SkillName |-> <<"J","a","v","a"," ","S","E">>, SkillCode |-> "platform_javase",
        Tokens |-> JsonList(<< <<"j","a","v","a">> >>), ParentSkillId |-> NoId,
        Aliases |-> JsonList(<< <<"J","a","v","a">> >>),
        DisambiguationRules |-> NoRules,
        SkillType |-> "programming", Category |-> "Language"] >>

MasterTables == { master_skill_list, TierTable }

\* raw names the matcher is called with
RawNames ==
    { <<"J","a","v","a">>, <<"C","o","r","e"," ","J","a","v","a">>, <<"j","v","m">>,
      <<"N","o","d","e">>, <<"R","e","a","c","t"," ","J","S">>, <<"R","e","a","c","t">>,
      <<"C","o","b","o","l">>, <<".","N","E","T">>, <<" ">> }

\* context_text the matcher is called with
Contexts ==
    { <<>>, <<"J","a","v","a","S","c","r","i","p","t"," ","a","p","p","s">>,
      <<"R","e","a","c","t"," ","t","e","a","m">> }

\* the rows of the vector index for a master table (see vector_index)
VectorIndexOf(master_skills) ==
    [i \in 1..Len(master_skills) |->
        [SkillID |-> master_skills[i].SkillID, skill_ref |-> NoId]]

\* one call of normalize_and_match_skill
MatchSkill ==
    /\ text_pc = "call"
    /\ \E raw_name \in RawNames, context_text \in Contexts, master_skills \in MasterTables :
          /\ arguments' = [raw_name |-> raw_name, context_text |-> context_text,
                           master_skills |-> master_skills]
          /\ returned' = normalize_and_match_skill(raw_name, master_skills,
                                                   VectorIndexOf(master_skills),
                                                   context_text)
    /\ text_pc' = "matched"
    /\ UNCHANGED <<skill_text, normalized_once, normalized_twice, cleaned, jobVars,
                   cacheVars, ingestVars, Candidates, CandidateSkills, rankVars>>

\* values of the DisambiguationRules column: NULL, text json.loads rejects,
\* JSON that is a list, and JSON objects with block and allow phrases
RuleValues ==
    { NoRules,
      [kind |-> "malformed", block_if_contains |-> <<>>, allow_if_contains |-> <<>>],
      [kind |-> "nonobject", block_if_contains |-> <<>>, allow_if_contains |-> <<>>],
      [kind |-> "object", block_if_contains |-> <<>>, allow_if_contains |-> <<>>],
      [kind |-> "object",
       block_if_contains |-> << <<"J","a","v","a","S","c","r","i","p","t">> >>,
       allow_if_contains |-> <<>>],
      [kind |-> "object", block_if_contains |-> <<>>,
       allow_if_contains |-> << <<"r","e","a","c","t">>, <<"a","p","p","s">> >>],
      [kind |-> "object",
       block_if_contains |-> << <<"j","a","v","a","s","c","r","i","p","t">> >>,
       allow_if_contains |-> << <<"a","p","p","s">> >>] }

\* normalized raw names passes_disambiguation is called with
NormalizedNames == { <<"j","a","v","a">>, <<"r","e","a","c","t">> }

\* one call of passes_disambiguation
Disambiguate ==
    /\ text_pc = "call"
    /\ \E rules \in RuleValues, normalized \in NormalizedNames, context_text \in Contexts :
          LET skill == [master_skill_list[1] EXCEPT !.DisambiguationRules = rules]
          IN  /\ arguments' = [skill |-> skill, normalized |-> normalized,
                               context |-> normalize_text(context_text)]
              /\ returned' = passes_disambiguation(skill, normalized,
                                                   normalize_text(context_text))
    /\ text_pc' = "disambiguated"
    /\ UNCHANGED <<skill_text, normalized_once, normalized_twice, cleaned, jobVars,
                   cacheVars, ingestVars, Candidates, CandidateSkills, rankVars>>

\* skill_map when process_extracted_skills is called: empty, or holding
\* language_java as an earlier role with a responsibility mention left it
SkillMaps ==
    { Empty,
      "language_java" :>
          [SkillMetrics EXCEPT !.mid_months = 1, !.first_used = 1, !.last_used = 2,
                               !.evidence_score = 7,
                               !.evidence_sources = {"responsibility"},
                               !.max_evidence_strength = 3,
                               !.confidence_scores = <<700>>] }

\* one call of process_extracted_skills for a role of one month
ProcessExtractedSkills ==
    /\ text_pc = "call"
    /\ \E job_title \in Titles, extracted_skills \in SkillLists, map \in SkillMaps :
          /\ arguments' = [skill_mentions |-> RoleMentionsOf(extracted_skills),
                           role_title |-> RoleTitleOf(job_title),
                           skill_map |-> map]
          /\ returned' =
                MentionLoop([map |-> RoleTitleCredit(map, RoleTitleOf(job_title), 1),
                             sources |-> <<>>, raised |-> FALSE, accepted |-> Empty],
                            RoleMentionsOf(extracted_skills),
                            RoleLevelOf(job_title), 1, 1, 2)
    /\ text_pc' = "processed"
    /\ UNCHANGED <<skill_text, normalized_once, normalized_twice, cleaned, jobVars,
                   cacheVars, ingestVars, Candidates, CandidateSkills, rankVars>>

\* one role of build_professional_profile(raw_experience, ref_date): the
\* duration comes from calculate_duration called without ref_date, the end
\* date from ref_date
BuildRole(role, ref_date) ==
    [title |-> role.job_title,
     verified_duration |-> calculate_duration(role.start_date_raw, role.end_date_raw,
                                              DEFAULT_REF_DATE),
     start_date_raw |-> role.start_date_raw,
     end_date_raw |-> IF role.end_date_raw = Present THEN ref_date
                      ELSE role.end_date_raw,
     extracted_skills |-> get_job_skill_mentions(role.extracted_skills)]

build_professional_profile(raw_experience, ref_date) ==
    [candidate_roles |->
        [i \in 1..Len(raw_experience) |-> BuildRole(raw_experience[i], ref_date)]]

\* reference dates a caller passes: the default and datetime.now()
RefDates == {DEFAULT_REF_DATE, RunDate}

\* one call of build_professional_profile for a resume of one role
BuildProfessionalProfile ==
    /\ text_pc = "call"
    /\ \E job_title \in Titles, dates \in DatePairs, extracted_skills \in SkillLists,
          ref_date \in RefDates :
          LET raw_experience == << [job_title |-> job_title,
                                    start_date_raw |-> dates[1],
                                    end_date_raw |-> dates[2],
                                    extracted_skills |-> extracted_skills] >>
          IN  /\ arguments' = [raw_experience |-> raw_experience, ref_date |-> ref_date]
              /\ returned' = build_professional_profile(raw_experience, ref_date)
    /\ text_pc' = "built"
    /\ UNCHANGED <<skill_text, normalized_once, normalized_twice, cleaned, jobVars,
                   cacheVars, ingestVars, Candidates, CandidateSkills, rankVars>>

\* DEFAULT_RETRY_COUNT of llm_wrapper.py
DEFAULT_RETRY_COUNT == 1

\* the calls of the LLM and of the embedding model the pipelines make:
\* thinking_json_reply passes retry_count=3 to chat_completion, parse_jd
\* passes retry_count=2, and get_embedding of Shared/embedder.py calls
\* ollama.embeddings once, outside any loop
ServiceCalls ==
    { [fn |-> "thinking_json_reply", loop |-> TRUE, retry_count |-> 3],
      [fn |-> "chat_completion", loop |-> TRUE, retry_count |-> 2],
      [fn |-> "get_embedding", loop |-> FALSE, retry_count |-> 0] }

\* a pipeline calls the LLM or the embedding model
StartCall ==
    /\ text_pc = "call"
    /\ \E c \in ServiceCalls :
          arguments' = [fn |-> c.fn, loop |-> c.loop, retry_count |-> c.retry_count,
                        attempt |-> 0]
    /\ returned' = [response |-> "none", error |-> "none"]
    /\ text_pc' = "calling"
    /\ UNCHANGED <<skill_text, normalized_once, normalized_twice, cleaned, jobVars,
                   cacheVars, ingestVars, Candidates, CandidateSkills, rankVars>>

\* an attempt answers: the call returns the response
AttemptSucceeds ==
    /\ text_pc = "calling"
    /\ arguments' = [arguments EXCEPT !.attempt = @ + 1]
    /\ returned' = [response |-> "ok", error |-> "none"]
    /\ text_pc' = "returned"
    /\ UNCHANGED <<skill_text, normalized_once, normalized_twice, cleaned, jobVars,
                   cacheVars, ingestVars, Candidates, CandidateSkills, rankVars>>

\* an attempt raises: inside the loop of chat_completion it is retried
\* while attempt < retry_count, then OllamaServiceError is raised; outside
\* a loop the client's exception leaves the call
AttemptFails ==
    /\ text_pc = "calling"
    /\ arguments' = [arguments EXCEPT !.attempt = @ + 1]
    /\ IF ~ arguments.loop
       THEN /\ text_pc' = "raised"
            /\ returned' = [response |-> "none", error |-> "ResponseError"]
       ELSE IF arguments.attempt < arguments.retry_count
       THEN /\ text_pc' = "calling"
            /\ returned' = returned
       ELSE /\ text_pc' = "raised"
            /\ returned' = [response |-> "none", error |-> "OllamaServiceError"]
    /\ UNCHANGED <<skill_text, normalized_once, normalized_twice, cleaned, jobVars,
                   cacheVars, ingestVars, Candidates, CandidateSkills, rankVars>>

\* extracted skills of one role in a call of get_job_skill_mentions
MaxSkills == 2

SkillNames ==
    { <<"C">>, <<"R">>, <<"C","+","+">>, <<" ","C"," ">>, <<" ">>,
      <<"J","a","v","a">>, <<"H","T","M","L","/","C","S","S">> }

SkillSources == {"skills_section", "responsibility", "implicit"}

RECURSIVE ExtractedSkillLists(_)
ExtractedSkillLists(n) ==
    IF n = 0 THEN {<<>>}
    ELSE {<<Skill(name, source)>> \o l :
            name \in SkillNames, source \in SkillSources,
            l \in ExtractedSkillLists(n - 1)}

\* one call of get_job_skill_mentions(job)
GetJobSkillMentions ==
    /\ text_pc = "call"
    /\ \E n \in 1..MaxSkills : \E extracted_skills \in ExtractedSkillLists(n) :
          /\ arguments' = [extracted_skills |-> extracted_skills]
          /\ returned' = get_job_skill_mentions(extracted_skills)
    /\ text_pc' = "mentions"
    /\ UNCHANGED <<skill_text, normalized_once, normalized_twice, cleaned, jobVars,
                   cacheVars, ingestVars, Candidates, CandidateSkills, rankVars>>

NextText ==
    \/ StartCall
    \/ GetJobSkillMentions
    \/ AttemptSucceeds
    \/ AttemptFails
    \/ BuildProfessionalProfile
    \/ NormalizeSkillText
    \/ NormalizeAgain
    \/ SplitSkillText
    \/ MatchSkill
    \/ Disambiguate
    \/ ProcessExtractedSkills

SpecText == InitText /\ [][NextText]_vars

\* C18: normalize_skill_text2 applied to its own result returns that result
C18_NormalizeSkillText2Idempotent ==
    text_pc = "renormalized" => normalized_twice = normalized_once

\* the fragments occur in text one after another, from position i on
RECURSIVE OccurInOrder(_, _, _)
OccurInOrder(text, i, fragments) ==
    \/ fragments = <<>>
    \/ \E j \in i..Len(text) :
          /\ StartsAt(text, j, Head(fragments))
          /\ OccurInOrder(text, j + Len(Head(fragments)), Tail(fragments))

HtmlCss == <<"H","T","M","L","/","C","S","S">>

\* C19: the fragments split_composite_skill returns are lowercase, trimmed,
\* at least 2 characters long, free of every separator and in the order of
\* the mention; a mention without separator is returned whole; "HTML/CSS"
\* gives exactly html, css
C19_SplitCompositeSkill ==
    text_pc = "split" =>
        /\ \A i \in 1..Len(cleaned) :
              /\ Len(cleaned[i]) >= 2
              /\ cleaned[i] = Strip(Lower(cleaned[i]))
              /\ \A k \in 1..Len(COMPOSITE_SEPARATORS) :
                    ~ Contains(cleaned[i], COMPOSITE_SEPARATORS[k])
        /\ OccurInOrder(Lower(skill_text), 1, cleaned)
        /\ (\A k \in 1..Len(COMPOSITE_SEPARATORS) :
                ~ Contains(Strip(Lower(skill_text)), COMPOSITE_SEPARATORS[k]))
           => cleaned = SeqFilterLen2(<<Strip(Lower(skill_text))>>)
        /\ skill_text = HtmlCss
           => cleaned = << <<"h","t","m","l">>, <<"c","s","s">> >>

\* "HTML/CSS" has been split
C19_Witness ==
    /\ text_pc = "split"
    /\ skill_text = HtmlCss
    /\ Len(cleaned) = 2

\* ------------------------------------------------------------------------
\* C20: scenario S1
\* ------------------------------------------------------------------------

\* the role of scenario S1: "Senior Java Developer", 2022-01 to 2024-01,
\* one mention of Java in the skills section
S1Role ==
    [title |-> <<"S","e","n","i","o","r"," ","J","a","v","a"," ",
                 "D","e","v","e","l","o","p","e","r">>,
     start_date_raw |-> 1,
     end_date_raw |-> 25,
     extracted_skills |-> << Skill(<<"J","a","v","a">>, "skills_section") >>]

\* the accumulators of the first sync, after it processed the role of S1
S1Processed ==
    /\ pc = "roles"
    /\ candidate_id = 1
    /\ profile = <<S1Role>>

\* the first sync committed a resume made of the role of S1
S1Committed == 1 \in DOMAIN Candidates /\ Candidates[1] = <<S1Role>>

\* C20: ingesting the single role of S1 yields one accumulator, for
\* language_java, with has_presence and evidence_sources exactly
\* {skills_section}, and one stored row, for language_java, with
\* total_months 24, senior_months 24, last_used 2024-01, method exact and
\* evidence sources exactly {skills_section}
C20_ScenarioS1 ==
    /\ S1Processed =>
          /\ DOMAIN skill_map = {"language_java"}
          /\ skill_map["language_java"].has_presence
          /\ skill_map["language_java"].evidence_sources = {"skills_section"}
    /\ S1Committed =>
          /\ {k \in DOMAIN CandidateSkills : k[1] = 1} = {<<1, 1>>}
          /\ CandidateSkills[<<1, 1>>].TotalMonths = 24
          /\ CandidateSkills[<<1, 1>>].SeniorMonths = 24
          /\ CandidateSkills[<<1, 1>>].LastUsedDate = 25
          /\ CandidateSkills[<<1, 1>>].NormalizationMethod = "exact"
          /\ CandidateSkills[<<1, 1>>].EvidenceSources = {"skills_section"}

\* ------------------------------------------------------------------------
\* C21: order of the tiers of the matcher
\* ------------------------------------------------------------------------

ExactHits(table, n) == {i \in DOMAIN table : ExactHit(table[i], n)}

AliasHits(table, n) == {i \in DOMAIN table : AliasHit(table[i], n)}

RuleHits(table, n) == {i \in DOMAIN table : RuleHit(table[i], n)}

\* the masters whose cosine with n is the highest and at least the threshold
VectorHits(table, n) ==
    {i \in DOMAIN table :
        /\ EmbeddingCosine(n, table[i].SkillID) >= VECTOR_THRESHOLD
        /\ \A j \in DOMAIN table :
              EmbeddingCosine(n, table[j].SkillID) <= EmbeddingCosine(n, table[i].SkillID)}

\* what the call returns when tier method succeeds first, on the masters hits
TierResult(table, n, context, hits, confidence, method) ==
    LET skill == table[MinOf(hits)]
    IN  IF passes_disambiguation(skill, n, context) = "block"
        THEN NoMatch("disambiguation_blocked")
        ELSE [SkillID |-> skill.SkillID, SkillCode |-> skill.SkillCode,
              SkillType |-> skill.SkillType, confidence |-> confidence,
              method |-> method]

\* the result the tier order prescribes for a non-empty normalized name n
FirstSuccess(table, n, context) ==
    IF ExactHits(table, n) # {}
    THEN TierResult(table, n, context, ExactHits(table, n), 1000, "exact")
    ELSE IF AliasHits(table, n) # {}
    THEN TierResult(table, n, context, AliasHits(table, n), 950, "alias")
    ELSE IF RuleHits(table, n) # {}
    THEN TierResult(table, n, context, RuleHits(table, n), 900, "rule")
    ELSE IF VectorHits(table, n) # {}
    THEN TierResult(table, n, context, VectorHits(table, n),
                    EmbeddingCosine(n, table[MinOf(VectorHits(table, n))].SkillID),
                    "vector")
    ELSE NoMatch("no_match")

\* C21: a call of normalize_and_match_skill with a non-empty normalized name
\* returns the first success of the tiers exact, alias, rule, vector, each
\* over the whole master table, with confidence 1.00, 0.95, 0.90 or the
\* cosine, and returns disambiguation_blocked when the first matching master
\* of the first succeeding tier fails disambiguation
C21_FirstTierWins ==
    text_pc = "matched" =>
        LET n == normalize_skill_text2(normalize_text(arguments.raw_name))
        IN  n # <<>> =>
                returned = FirstSuccess(arguments.master_skills, n,
                                        normalize_text(arguments.context_text))

\* ------------------------------------------------------------------------
\* C22: the three cases of the disambiguator
\* ------------------------------------------------------------------------

\* some phrase of the list occurs in the combined text
Occurs(phrases, combined) ==
    \E k \in DOMAIN phrases : Contains(combined, Lower(phrases[k]))

\* the verdict of the three-case rule; rules that are missing or are not a
\* JSON object allow
ThreeCases(rules, combined) ==
    IF rules.kind # "object" THEN "pass"
    ELSE IF Occurs(rules.block_if_contains, combined) THEN "block"
    ELSE IF rules.allow_if_contains = <<>> THEN "pass"
    ELSE IF Occurs(rules.allow_if_contains, combined) THEN "pass"
    ELSE "block"

\* C22: passes_disambiguation returns the verdict of the three-case rule on
\* "normalized context", and allows for missing rules, unparseable rules and
\* rules that are JSON but no object
C22_DisambiguationThreeCases ==
    text_pc = "disambiguated" =>
        returned = ThreeCases(arguments.skill.DisambiguationRules,
                              Lower(arguments.normalized \o <<" ">> \o arguments.context))

\* ------------------------------------------------------------------------
\* C23: max_evidence_strength against evidence_sources
\* ------------------------------------------------------------------------

\* the sources of mentions the claim speaks of
MentionSources == {"skills_section", "technology_list", "responsibility"}

\* the mention is resolved by the matcher and its source is one of the three
Resolved(mention) ==
    /\ mention.source \in MentionSources
    /\ MatchOf(mention.raw_name).SkillCode # None

\* the strengths of the sources of an accumulator that have a strength
Strengths(acc) ==
    {EVIDENCE_STRENGTH[src] : src \in acc.evidence_sources \cap DOMAIN EVIDENCE_STRENGTH}

\* C23: a call of process_extracted_skills whose mentions are all resolved
\* and come from skills_section, technology_list or responsibility does not
\* raise, and leaves every accumulator that has evidence sources with
\* max_evidence_strength equal to the highest strength among them
C23_EvidenceStrengthConsistent ==
    (/\ text_pc = "processed"
     /\ \A i \in DOMAIN arguments.skill_mentions : Resolved(arguments.skill_mentions[i]))
    => /\ ~ returned.raised
       /\ \A code \in DOMAIN returned.map :
             Strengths(returned.map[code]) # {} =>
                returned.map[code].max_evidence_strength =
                    MaxOf(Strengths(returned.map[code]))

\* ------------------------------------------------------------------------
\* C24: an open-ended role ends at the reference date
\* ------------------------------------------------------------------------

\* C24: for a role whose end date is "Present", "N/A" or missing, the
\* profile built with reference date ref_date has end date ref_date and
\* verified_duration equal to the months from the role's start to ref_date
C24_PresentResolvesToRefDate ==
    text_pc = "built" =>
        \A i \in DOMAIN arguments.raw_experience :
            arguments.raw_experience[i].end_date_raw = Present =>
                /\ returned.candidate_roles[i].end_date_raw = arguments.ref_date
                /\ returned.candidate_roles[i].verified_duration =
                        arguments.ref_date - arguments.raw_experience[i].start_date_raw

\* ------------------------------------------------------------------------
\* C25: the retry policy around LLM and embedding calls
\* ------------------------------------------------------------------------

\* the retries the policy grants a call: the count the caller passes, else
\* the default
PolicyRetries(c) == IF c.loop THEN c.retry_count ELSE DEFAULT_RETRY_COUNT

\* C25: a call of the LLM or of the embedding model is attempted at most
\* retry_count + 1 times, and it raises only after retry_count + 1 failed
\* attempts, with OllamaServiceError
C25_CallsGoThroughRetryPolicy ==
    text_pc \in {"calling", "returned", "raised"} =>
        /\ arguments.attempt <= PolicyRetries(arguments) + 1
        /\ text_pc = "raised" =>
              /\ arguments.attempt = PolicyRetries(arguments) + 1
              /\ returned.error = "OllamaServiceError"

\* ------------------------------------------------------------------------
\* C26: a role is credited to a skill once
\* ------------------------------------------------------------------------

\* some mention of the role resolves to the master skill
RoleMentionsSkill(role, master_id) ==
    \E i \in DOMAIN RoleMentionsOf(role.extracted_skills) :
        MasterIdOf(MatchOf(RoleMentionsOf(role.extracted_skills)[i].raw_name).SkillCode)
            = master_id

\* sum of the verified durations of the roles of a band that mention the skill
RECURSIVE CreditableMonths(_, _, _)
CreditableMonths(roles, band, master_id) ==
    IF roles = <<>> THEN 0
    ELSE (IF /\ RoleLevelOf(Head(roles).title) = band
             /\ RoleMentionsSkill(Head(roles), master_id)
          THEN calculate_duration(Head(roles).start_date_raw, Head(roles).end_date_raw,
                                  DEFAULT_REF_DATE)
          ELSE 0)
         + CreditableMonths(Tail(roles), band, master_id)

BandMonths(row, band) ==
    IF band = "junior" THEN row.JuniorMonths
    ELSE IF band = "mid" THEN row.MidMonths
    ELSE row.SeniorMonths

\* C26: in every stored row each band's months are at most the sum of the
\* verified durations of the candidate's roles of that band that mention
\* the skill
C26_RoleCreditedOncePerSkill ==
    \A k \in DOMAIN CandidateSkills :
        \A band \in {"junior", "mid", "senior"} :
            BandMonths(CandidateSkills[k], band)
                <= CreditableMonths(Candidates[k[1]], band, k[2])

\* ------------------------------------------------------------------------
\* Agreement of the gate and the scorer
\* ------------------------------------------------------------------------

\* the hard SkillRequirements of the profile that resolve to a master skill
ResolvedHardSkills ==
    {i \in DOMAIN jd_profile.requirements :
        /\ jd_profile.requirements[i].kind = "skill"
        /\ jd_profile.requirements[i].requirement_level = "hard"
        /\ JdMatchOf(jd_profile.requirements[i].raw_skill).SkillID # NoId}

\* C27: for every candidate the gate returned and every hard
\* SkillRequirement that resolves to a master skill, the breakdown entry
\* _score_candidate produced for that requirement has matched = true, also
\* when the candidate passed the gate through a descendant or an implication.
C27_GateAndScorerAgree ==
    rank_pc = "done" =>
        \A r \in DOMAIN ranked_results :
            /\ ranked_results[r].candidate_id \in eligible_candidate_ids
            /\ \A i \in ResolvedHardSkills :
                  ranked_results[r].breakdown[i].matched

\* ------------------------------------------------------------------------
\* The counts of a ranked result
\* ------------------------------------------------------------------------

MatchedEntries(breakdown) == {i \in DOMAIN breakdown : breakdown[i].matched}

UnmatchedEntries(breakdown) == {i \in DOMAIN breakdown : ~breakdown[i].matched}

\* C28: in every ranked result matched_skill_count is the number of
\* breakdown entries with matched = true, unmatched_skill_count the number
\* with matched = false, unmatched_skills lists exactly the unmatched
\* requirements, and the two counts add up to total_jd_skills.
C28_CountsFollowBreakdown ==
    \A r \in DOMAIN ranked_results :
        LET result == ranked_results[r]
        IN  /\ result.matched_skill_count = Cardinality(MatchedEntries(result.breakdown))
            /\ result.unmatched_skill_count =
                  Cardinality(UnmatchedEntries(result.breakdown))
            /\ Len(result.unmatched_skills) =
                  Cardinality(UnmatchedEntries(result.breakdown))
            /\ result.matched_skill_count + result.unmatched_skill_count
                  = result.total_jd_skills

\* ------------------------------------------------------------------------
\* The progress of a job record
\* ------------------------------------------------------------------------

ProgressMatchesStatus ==
    \A j \in DOMAIN Jobs :
        /\ (Jobs[j].progress = 100) <=> (Jobs[j].status = "completed")
        /\ Jobs[j].status = "failed" => Jobs[j].progress = 0

\* a step that leaves job j not failed neither lowers its progress nor takes
\* it back from processing to queued
MovesForward ==
    \A j \in DOMAIN Jobs :
        Jobs'[j].status # "failed" =>
            /\ Jobs'[j].progress >= Jobs[j].progress
            /\ ~ (Jobs[j].status = "processing" /\ Jobs'[j].status = "queued")

\* C29: in every reachable state of a job record progress = 100 if and only
\* if status = completed and a failed job has progress 0; along any run that
\* does not fail the progress never decreases and the status never moves
\* back from processing to queued.
C29_ProgressFollowsStatus ==
    /\ []ProgressMatchesStatus
    /\ [][MovesForward]_vars

\* a candidate job that went through queued and processing to completed at
\* 100, next to a job that failed after reporting progress
C29_Witness ==
    \E j, k \in DOMAIN Jobs :
        /\ Jobs[j].type = "candidate"
        /\ Jobs[j].status = "completed"
        /\ Jobs[j].progress = 100
        /\ workers[j].pc = "returned"
        /\ Jobs[k].status = "failed"
        /\ Jobs[k].progress = 0
        /\ workers[k].step > 2

\* ------------------------------------------------------------------------
\* The mentions of an extracted skill
\* ------------------------------------------------------------------------

HasNonSpace(raw_name) == \E i \in DOMAIN raw_name : ~ IsSpace(raw_name[i])

\* the mentions of the result that come from the extracted skill s: they
\* carry its source and a piece of its lowered name
MentionsFrom(mentions, s) ==
    {i \in DOMAIN mentions :
        /\ mentions[i].source = s.source
        /\ mentions[i].raw_name # <<>>
        /\ Contains(Lower(s.raw_name), mentions[i].raw_name)}

\* C30: every extracted skill whose source is not implicit and whose
\* raw_name has a non-space character yields at least one mention in the
\* result of get_job_skill_mentions, single-letter names (C, R) and names
\* with a separator character (C++) included.
C30_EveryExplicitSkillYieldsMention ==
    text_pc = "mentions" =>
        \A i \in DOMAIN arguments.extracted_skills :
            LET s == arguments.extracted_skills[i]
            IN  (s.source # "implicit" /\ HasNonSpace(s.raw_name))
                    => MentionsFrom(returned, s) # {}

====
